---- MODULE Spec2Model ----
(***************************************************************************)
(* Model of the ACME server core of acme_broker (server/server.py,         *)
(* models/authorization.py, server/challenge_validator.py).                *)
(*                                                                         *)
(* The persisted entities are the variables accounts, orders, authzs,      *)
(* challenges and certs; the in-process nonce store is nonces.  Every      *)
(* request handler is an action that runs _verify_request on a signed      *)
(* envelope built from a small set of client inputs; background tasks      *)
(* (asyncio.ensure_future) are records in tasks that take their own steps. *)
(* The variable last records the latest request and the response it got.   *)
(***************************************************************************)
EXTENDS Integers, FiniteSets, Sequences, TLC

(***************************************************************************)
(* Bounds                                                                  *)
(***************************************************************************)
\* uuid4 nonces are modelled as the fresh numbers 1..MaxNonce
MaxNonce == 4
\* RSA key pairs a client may hold: 1..NumKeys
NumKeys == 2
\* orders that new-order may create
MaxOrders == 1
\* background tasks that may be launched
MaxTasks == 2

Keys == 1..NumKeys
NoKey == 0
\* a signature that verifies under no key
BadSigner == NumKeys + 1
\* a key pair below the configured minimum size
WeakKey == NumKeys + 2
ClientKeys == Keys \cup {WeakKey}
rsa_min_keysize == 2048
key_size(key) == IF key = WeakKey THEN 1024 ELSE 2048
NoAccount == 0
NoOrder == 0
NoCert == 0
\* identifier values a new-order may name
NumNames == 1
NameList == <<"a.test", "b.test", "c.test">>
Names == {NameList[i] : i \in 1..NumNames}
\* ChallengeType members bound in _challenge_validators (both built-in
\* validators declare SUPPORTED_CHALLENGES = {DNS_01, HTTP_01})
ChallengeTypes == {"http-01", "dns-01"}
NoCsr == [key |-> NoKey, names |-> {}, signed |-> FALSE]

(***************************************************************************)
(* util.sha256_hex_digest(serialize_pubkey(key)): the kid of a key.  The   *)
(* digest is modelled as an injective map into a range disjoint from keys. *)
(***************************************************************************)
KidBase == 100
sha256_hex_digest(key) == KidBase + ((key * 7) % 11)
Kids == {sha256_hex_digest(k) : k \in Keys}

(***************************************************************************)
(* URLs: host, route name and last path segment (yarl.URL(...).name)       *)
(***************************************************************************)
ServerHost == "srv"
NoURL == [host |-> "", route |-> "", name |-> 0]
url_for(route, name) == [host |-> ServerHost, route |-> route, name |-> name]

SUPPORTED_JWS_ALGORITHMS == {"RS256", "RS384", "RS512", "PS256", "PS384", "PS512"}

VARIABLES
    nonces,      \* AcmeServerBase._nonces
    nextNonce,   \* the next fresh uuid4
    accounts,    \* table accounts: sequence of rows [kid, key, status]
    inflight,    \* new-account handlers suspended between lookup and flush
    orders,      \* table orders: order_id -> row
    authzs,      \* table authorizations: <<order_id, name>> -> status
    challenges,  \* table challenges: <<order_id, name, type>> -> status
    certs,       \* table certificates: sequence of rows
    tasks,       \* background tasks launched with asyncio.ensure_future
    nextTask,    \* number of tasks launched so far, plus one
    finalizing,  \* coroutines working on an order: finalize handlers
                 \* suspended before their commit, and background tasks
    upstream,    \* the remote CA as the internal client sees it
    challenge_validators,  \* AcmeServerBase._challenge_validators
    config,      \* the options the server was constructed with
    call,        \* the latest call of a function under observation
    last         \* the latest request and its response

db == <<accounts, orders, authzs, challenges, certs>>
vars == <<nonces, nextNonce, accounts, inflight, orders, authzs, challenges,
          certs, tasks, nextTask, finalizing, upstream, challenge_validators,
          config, call, last>>
\* the state that only the order finalization and the relays touch
relay == <<finalizing, upstream>>
\* the state that no request handler and no background task writes
setup == <<challenge_validators, config, call>>

(***************************************************************************)
(* Store interface (Database.get_account ...)                              *)
(***************************************************************************)
\* the rows of table accounts, in insertion order
AccountRows == {accounts[i] : i \in DOMAIN accounts}
HasKid(kid) == \E a \in AccountRows : a.kid = kid
RowOf(kid) == CHOOSE i \in DOMAIN accounts : accounts[i].kid = kid
AccountOf(kid) == accounts[RowOf(kid)]
get_account_by_kid(kid) == IF HasKid(kid) THEN kid ELSE NoAccount
get_account_by_key(key) ==
    IF \E a \in AccountRows : a.key = key
    THEN (CHOOSE a \in AccountRows : a.key = key).kid
    ELSE NoAccount

(***************************************************************************)
(* The signed envelope (flattened JWS) a client sends.  A client holds the *)
(* private key `key` and builds a correct request with at most one defect. *)
(***************************************************************************)
Defects == {"none", "garbage", "payload", "url", "alg", "both", "neither",
            "kidroute", "kidhost", "kidbuggy", "sig"}

KidUrlOf(key, defect) ==
    CASE defect = "kidroute" -> [host |-> ServerHost, route |-> "orders",
                                 name |-> sha256_hex_digest(key)]
      [] defect = "kidhost"  -> [host |-> "evil", route |-> "accounts",
                                 name |-> sha256_hex_digest(key)]
      [] defect = "kidbuggy" -> [host |-> ServerHost, route |-> "new-account",
                                 name |-> sha256_hex_digest(key)]
      [] OTHER               -> url_for("accounts", sha256_hex_digest(key))

\* jwkForm: the client embeds its JWK (new-account, revocation by
\* certificate key); otherwise it names its account by kid URL
Envelope(key, defect, nonce, reqUrl, jwkForm, emptyPayload) ==
    [parse_ok      |-> defect # "garbage",
     payload_empty |-> IF defect = "payload" THEN ~emptyPayload ELSE emptyPayload,
     url           |-> IF defect = "url" THEN url_for("directory", 0) ELSE reqUrl,
     alg           |-> IF defect = "alg" THEN "HS256" ELSE "RS256",
     nonce         |-> nonce,
     jwk           |-> IF defect = "neither" THEN NoKey
                       ELSE IF jwkForm \/ defect = "both" THEN key ELSE NoKey,
     kid           |-> IF defect = "neither" THEN NoURL
                       ELSE IF ~jwkForm \/ defect = "both" THEN KidUrlOf(key, defect)
                       ELSE NoURL,
     signer        |-> IF defect = "sig" THEN BadSigner ELSE key]

\* jws.verify(key)
jws_verify(env, key) == env.signer = key

(***************************************************************************)
(* AcmeServerBase._verify_request                                          *)
(***************************************************************************)
\* the kid URL is the canonical accounts route, or the dehydrated variant
KidUrlCanonical(sigkid) == url_for("accounts", sigkid.name) = sigkid
KidUrlBuggy_AnyRoute(sigkid) == sigkid.name # 0
KidUrlBuggy(sigkid) ==
    [host |-> ServerHost, route |-> "new-account", name |-> sigkid.name] = sigkid

Verdict(code, consumed, account) ==
    [code |-> code, consumed |-> consumed, account |-> account]

\* the kid branch, after the nonce has been consumed
VerifyKid(env, matchKid) ==
    LET kid == env.kid.name IN
    IF ~KidUrlCanonical(env.kid) /\ ~KidUrlBuggy(env.kid)
    THEN Verdict("malformed", TRUE, NoAccount)
    ELSE IF KidUrlCanonical(env.kid) /\ matchKid # 0 /\ matchKid # kid
    THEN Verdict("malformed", TRUE, NoAccount)
    ELSE IF get_account_by_kid(kid) = NoAccount
    THEN Verdict("accountDoesNotExist", TRUE, NoAccount)
    ELSE IF AccountOf(kid).status # "valid"
    THEN Verdict("unauthorized", TRUE, NoAccount)
    ELSE IF ~jws_verify(env, AccountOf(kid).key)
    THEN Verdict("unauthorized", TRUE, NoAccount)
    ELSE Verdict("", TRUE, kid)

\* the nonce check of _verify_nonce: is the nonce in the store
NonceKnown(nonce) == nonce \in nonces

\* matchKid: request.match_info["kid"], 0 when the route has no kid
VerifyRequest(env, reqUrl, matchKid, key_auth, post_as_get) ==
    IF ~env.parse_ok THEN Verdict("malformed", FALSE, NoAccount)
    ELSE IF post_as_get /\ ~env.payload_empty
    THEN Verdict("malformed", FALSE, NoAccount)
    ELSE IF env.url # reqUrl THEN Verdict("unauthorized", FALSE, NoAccount)
    ELSE IF env.alg \notin SUPPORTED_JWS_ALGORITHMS
    THEN Verdict("badSignatureAlgorithm", FALSE, NoAccount)
    ELSE IF ~NonceKnown(env.nonce) THEN Verdict("badNonce", FALSE, NoAccount)
    ELSE IF (env.jwk # NoKey) = (env.kid # NoURL)
    THEN Verdict("malformed", TRUE, NoAccount)
    ELSE IF key_auth
    THEN IF env.jwk = NoKey THEN Verdict("serverError", TRUE, NoAccount)
         ELSE IF ~jws_verify(env, env.jwk)
         THEN Verdict("unauthorized", TRUE, NoAccount)
         ELSE Verdict("", TRUE, get_account_by_key(env.jwk))
    ELSE IF env.kid # NoURL THEN VerifyKid(env, matchKid)
    ELSE Verdict("malformed", TRUE, NoAccount)

(***************************************************************************)
(* Responses                                                               *)
(***************************************************************************)
\* messages.get_status(error.code)
get_status(code) == IF code = "unauthorized" THEN 403 ELSE 400

\* what is recorded of a request: endpoint, nonce carried (and whether the
\* store held it on arrival), kid URL and JWK of the signature, verifying key
\* (wellformed: the envelope parses, names the request URL, uses a
\* supported algorithm and carries exactly one of jwk and kid)
Request(ep, nonce, env) ==
    [ep |-> ep, nonce |-> nonce, live |-> nonce \in nonces,
     kid |-> env.kid, jwk |-> env.jwk, signer |-> env.signer,
     wellformed |-> /\ env.parse_ok
                    /\ env.url.route = ep
                    /\ env.alg \in SUPPORTED_JWS_ALGORITHMS
                    /\ (env.jwk # NoKey) # (env.kid # NoURL)]

\* the latest request and its response:
\*   gone  - the nonce the request carried is not in the store afterwards
\*   fresh - the response carries a Replay-Nonce newly added to the store
\*   acct  - kid of the account the request was resolved to
\*   loc   - kid in the Location header (accounts route), 0 if none
\*   order, ostatus - id and status of the order object in the body
\*   csr   - the CSR that _validate_order parsed from a finalize request
\* no X-Forwarded-For header; the connection of a request is observed
\* where the middleware answers and where the request is handed to a task
NoHeader == [present |-> FALSE, addresses |-> <<>>]
NoConnection == [remote |-> "", forwarded_for |-> NoHeader]

Observed(req, spent, status, code, fresh, acct, loc) ==
    [ep |-> req.ep, live |-> req.live, gone |-> req.nonce \notin (nonces \ spent),
     kid |-> req.kid, jwk |-> req.jwk, signer |-> req.signer,
     wellformed |-> req.wellformed,
     status |-> status, code |-> code, fresh |-> fresh,
     acct |-> acct, loc |-> loc, order |-> NoOrder, ostatus |-> "",
     csr |-> NoCsr, conn |-> NoConnection]

NoRequest(ep) ==
    [ep |-> ep, nonce |-> 0, live |-> FALSE, kid |-> NoURL, jwk |-> NoKey,
     signer |-> NoKey, wellformed |-> TRUE]

\* nonces issued so far; a client can only present one of these
Issued == 1..(nextNonce - 1)

\* _issue_nonce: a fresh uuid4 joins the store
IssueNonce(spent) ==
    /\ nextNonce <= MaxNonce
    /\ nonces' = (nonces \ spent) \cup {nextNonce}
    /\ nextNonce' = nextNonce + 1

\* _response(...): the response carries a newly issued nonce.
\* `spent` is the set of nonces _verify_nonce removed during the request.
Reply(req, spent, status, code, acct, loc) ==
    /\ IssueNonce(spent)
    /\ last' = Observed(req, spent, status, code, TRUE, acct, loc)

\* a response that is not built by _response: web.HTTPNotFound (404), the
\* middleware's web.Response, or an exception that is no acme.messages.Error
PlainResponse(req, spent, status) ==
    /\ nonces' = nonces \ spent
    /\ nextNonce' = nextNonce
    /\ last' = Observed(req, spent, status, "", FALSE, NoAccount, 0)

SpentBy(v, nonce) == IF v.consumed THEN {nonce} ELSE {}

\* error_middleware: an acme.messages.Error becomes a problem document
\* built by _response; anything else passes through
ErrorResponse(req, v) ==
    IF v.code = "serverError"
    THEN PlainResponse(req, SpentBy(v, req.nonce), 500)
    ELSE Reply(req, SpentBy(v, req.nonce), get_status(v.code), v.code,
               NoAccount, 0)

\* an ACME error raised by the handler after _verify_request succeeded
HandlerError(req, code) == ErrorResponse(req, Verdict(code, TRUE, NoAccount))

EmptyDB ==
    /\ accounts = <<>>
    /\ orders = <<>>
    /\ authzs = <<>>
    /\ challenges = <<>>
    /\ certs = <<>>

\* the remote CA before the internal client has used it: no upstream
\* order, no call made for a local order, no call failed or timed out, no
\* certificate revoked, no revocation refused
NoUpstream ==
    [orders |-> 0, calls |-> {}, failed |-> {}, timeouts |-> 0,
     revoked |-> {}, refusals |-> 0]

(***************************************************************************)
(* Challenge validators and their registry                                 *)
(***************************************************************************)
\* a validator object: its class, its SUPPORTED_CHALLENGES and which
\* instance of the class it is
Validator(name, types, id) ==
    [name |-> name, SUPPORTED_CHALLENGES |-> types, id |-> id]
NoValidator == Validator("", {}, 0)

RequestIPDNSChallengeValidator ==
    Validator("RequestIPDNSChallengeValidator", {"dns-01", "http-01"}, 1)
DummyValidator == Validator("DummyValidator", {"dns-01", "http-01"}, 1)
\* an implementation of ChallengeValidator that is not known further
SomeValidator == Validator("ChallengeValidator", ChallengeTypes, 1)

\* self._challenge_validators = {}
EmptyRegistry == [t \in ChallengeTypes |-> NoValidator]

\* line 246: self._challenge_validators.get(challenge_type)
AlreadyBound_Never(registry, challenge_type) == FALSE
AlreadyBound(registry, challenge_type) == registry[challenge_type] # NoValidator

\* lines 245-251: the loop over SUPPORTED_CHALLENGES in the iteration order
\* `order`; a type that is bound raises ValueError, another one is bound
RECURSIVE RegisterLoop(_, _, _)
RegisterLoop(registry, validator, order) ==
    IF order = <<>> THEN [registry |-> registry, raised |-> FALSE]
    ELSE IF AlreadyBound(registry, Head(order))
    THEN [registry |-> registry, raised |-> TRUE]
    ELSE RegisterLoop([registry EXCEPT ![Head(order)] = validator],
                      validator, Tail(order))

\* the orders in which a frozenset may be iterated
IterationOrders(S) ==
    {order \in [1..Cardinality(S) -> S] :
        \A i, j \in 1..Cardinality(S) : order[i] = order[j] => i = j}

\* the registry after register_challenge_validator(validator) on an empty one
Registered(validator) ==
    RegisterLoop(EmptyRegistry, validator,
                 CHOOSE order \in IterationOrders(validator.SUPPORTED_CHALLENGES) :
                    TRUE).registry

\* self._supported_challenges
supported_challenges ==
    {t \in ChallengeTypes : challenge_validators[t] # NoValidator}

\* the options of AcmeServerBase.__init__ that the model follows
Config(use_forwarded_header, subnets) ==
    [use_forwarded_header |-> use_forwarded_header, subnets |-> subnets]
\* use_forwarded_header=False, subnets=None
DefaultConfig == Config(FALSE, {})

\* no function was called yet
NoCall == [fn |-> "", arg |-> <<>>, result |-> <<>>]

\* the server was constructed with the options cfg and holds the registry
Configured(cfg, registry) ==
    /\ config = cfg
    /\ challenge_validators = registry
    /\ call = NoCall

\* the state after construction: empty nonce store, nothing in flight
Running(client) ==
    /\ upstream = client
    /\ nonces = {}
    /\ nextNonce = 1
    /\ inflight = [k \in ClientKeys |-> 0]
    /\ tasks = {}
    /\ nextTask = 1
    /\ finalizing = {}
    /\ last = Observed(NoRequest("none"), {}, 0, "", FALSE, NoAccount, 0)

\* constructed with the default options, one validator registered
Started(client) ==
    /\ Running(client)
    /\ Configured(DefaultConfig, Registered(SomeValidator))

Constructed == Started(NoUpstream)

Init == Constructed /\ EmptyDB

(***************************************************************************)
(* GET /new-nonce: _response with a fresh nonce                            *)
(***************************************************************************)
new_nonce ==
    /\ Reply(NoRequest("new-nonce"), {}, 204, "", NoAccount, 0)
    /\ UNCHANGED <<setup, db, inflight, tasks, nextTask, relay>>

(***************************************************************************)
(* POST /new-account.  The handler is suspended at its database I/O: the   *)
(* lookup by key happens in _verify_request, the INSERT at session.flush() *)
(***************************************************************************)
JwkDefects == {"none", "garbage", "url", "alg", "both", "neither", "sig"}
KidDefects == {"none", "garbage", "url", "alg", "both", "neither",
               "kidroute", "kidhost", "kidbuggy", "sig"}

\* payloads of new-account: <<only_return_existing, terms_of_service_agreed>>
Registrations == {<<FALSE, TRUE>>, <<TRUE, TRUE>>, <<FALSE, FALSE>>}

\* a well-formed request with any payload, or a defective one
NewAccountInputs ==
    {<<"none", reg>> : reg \in Registrations}
        \cup {<<d, <<FALSE, TRUE>>>> : d \in JwkDefects \ {"none"}}

\* models.Account.from_obj(jwk, reg)
Account_from_obj(key) ==
    [kid |-> sha256_hex_digest(key), key |-> key, status |-> "valid"]

\* primary key of table accounts: a second row with the same kid is refused
AccountInsertable_NoKey(kid) == TRUE
AccountInsertable(kid) == ~HasKid(kid)

\* the account found by key decides between "return existing" and "create"
ExistingAccount_Ignored(v) == NoAccount
ExistingAccount(v) == v.account

new_account_begin ==
    \E key \in ClientKeys, n \in Issued, input \in NewAccountInputs :
      LET defect == input[1]
          only_return_existing == input[2][1]
          tos_agreed == input[2][2]
          reqUrl == url_for("new-account", 0)
          env == Envelope(key, defect, n, reqUrl, TRUE, FALSE)
          req == Request("new-account", n, env)
          v == VerifyRequest(env, reqUrl, 0, TRUE, FALSE)
          found == ExistingAccount(v)
      IN
      /\ UNCHANGED <<setup, db, tasks, nextTask, relay>>
      /\ IF v.code # ""
         THEN ErrorResponse(req, v) /\ UNCHANGED inflight
         ELSE IF key_size(key) < rsa_min_keysize
         THEN HandlerError(req, "badPublicKey") /\ UNCHANGED inflight
         ELSE IF found # NoAccount
         THEN /\ UNCHANGED inflight
              /\ IF AccountOf(found).status # "valid"
                 THEN HandlerError(req, "unauthorized")
                 ELSE Reply(req, {n}, 200, "", found, found)
         ELSE IF only_return_existing
         THEN HandlerError(req, "accountDoesNotExist") /\ UNCHANGED inflight
         ELSE IF ~tos_agreed
         THEN HandlerError(req, "termsOfServiceNotAgreed") /\ UNCHANGED inflight
         ELSE \* create new account: session.add, then await session.flush()
              /\ nonces' = nonces \ {n}
              /\ inflight' = [inflight EXCEPT ![key] = @ + 1]
              /\ UNCHANGED <<nextNonce, last>>

new_account_commit ==
    \E key \in ClientKeys :
      LET row == Account_from_obj(key)
          req == [ep |-> "new-account", nonce |-> 0, live |-> TRUE,
                  kid |-> NoURL, jwk |-> key, signer |-> key,
                  wellformed |-> TRUE]
      IN
      /\ inflight[key] > 0
      /\ inflight' = [inflight EXCEPT ![key] = @ - 1]
      /\ IF AccountInsertable(row.kid)
         THEN /\ accounts' = Append(accounts, row)
              /\ Reply(req, {}, 201, "", row.kid, row.kid)
         ELSE \* IntegrityError at flush: not an ACME error
              /\ PlainResponse(req, {}, 500)
              /\ UNCHANGED accounts
      /\ UNCHANGED <<setup, orders, authzs, challenges, certs, tasks, nextTask, relay>>

(***************************************************************************)
(* POST /accounts/{kid}                                                    *)
(***************************************************************************)
AccountUpdates == {"none", "deactivate", "badstatus"}

\* Account.update(upd): only the change to DEACTIVATED is allowed
Account_update(row, upd) ==
    IF upd = "deactivate" THEN [row EXCEPT !.status = "deactivated"] ELSE row

\* <<defect, kid in the request path, update>>: a well-formed request to
\* the client's own or to another account URL, or a defective one
AccountsInputs(key) ==
    {<<"none", sha256_hex_digest(k), upd>> : k \in Keys, upd \in AccountUpdates}
        \cup {<<d, sha256_hex_digest(key), "none">> : d \in KidDefects \ {"none"}}

\* a handler that commits the status it was sent before refusing it
accounts_handler_CommitFirst ==
    \E key \in Keys, n \in Issued :
      \E input \in AccountsInputs(key) :
      LET defect == input[1]
          target == input[2]
          upd == input[3]
          reqUrl == url_for("accounts", target)
          env == Envelope(key, defect, n, reqUrl, FALSE, FALSE)
          req == [Request("accounts", n, env) EXCEPT
                     !.wellformed = @ /\ target = env.kid.name]
          v == VerifyRequest(env, reqUrl, target, FALSE, FALSE)
      IN
      /\ UNCHANGED <<setup, inflight, orders, authzs, challenges, certs, tasks, nextTask,
                     relay>>
      /\ IF v.code # ""
         THEN ErrorResponse(req, v) /\ UNCHANGED accounts
         ELSE IF upd = "badstatus"
         THEN /\ HandlerError(req, "malformed")
              /\ accounts' = [accounts EXCEPT ![RowOf(v.account)].status =
                                                   "deactivated"]
         ELSE /\ accounts' = [accounts EXCEPT ![RowOf(v.account)] =
                                              Account_update(@, upd)]
              /\ Reply(req, {n}, 200, "", v.account, 0)

accounts_handler ==
    \E key \in Keys, n \in Issued :
      \E input \in AccountsInputs(key) :
      LET defect == input[1]
          target == input[2]
          upd == input[3]
          reqUrl == url_for("accounts", target)
          env == Envelope(key, defect, n, reqUrl, FALSE, FALSE)
          req == [Request("accounts", n, env) EXCEPT
                     !.wellformed = @ /\ target = env.kid.name]
          v == VerifyRequest(env, reqUrl, target, FALSE, FALSE)
      IN
      /\ UNCHANGED <<setup, inflight, orders, authzs, challenges, certs, tasks, nextTask,
                     relay>>
      /\ IF v.code # ""
         THEN ErrorResponse(req, v) /\ UNCHANGED accounts
         ELSE IF upd = "badstatus"
         THEN HandlerError(req, "malformed") /\ UNCHANGED accounts
         ELSE /\ accounts' = [accounts EXCEPT ![RowOf(v.account)] =
                                              Account_update(@, upd)]
              /\ Reply(req, {n}, 200, "", v.account, 0)

Next ==
    \/ new_nonce
    \/ new_account_begin
    \/ new_account_commit
    \/ accounts_handler

Spec == Init /\ [][Next]_vars

(***************************************************************************)
(* register_challenge_validator                                            *)
(***************************************************************************)
\* instances of one validator class that a deployment may create
NumValidators == 2

\* the validators of challenge_validator.py and implementations of
\* ChallengeValidator with any SUPPORTED_CHALLENGES
Validators ==
    {RequestIPDNSChallengeValidator, DummyValidator}
        \cup {Validator("ChallengeValidator", types, id) :
                 types \in SUBSET ChallengeTypes, id \in 1..NumValidators}

register_challenge_validator ==
    \E validator \in Validators :
      \E order \in IterationOrders(validator.SUPPORTED_CHALLENGES) :
      LET loop == RegisterLoop(challenge_validators, validator, order) IN
      /\ challenge_validators' = loop.registry
      /\ call' = [fn |-> "register_challenge_validator", arg |-> validator,
                  result |-> IF loop.raised THEN "ValueError" ELSE "None"]
      /\ UNCHANGED <<nonces, nextNonce, db, inflight, tasks, nextTask, relay,
                     config, last>>

\* constructed, no validator registered yet
InitRegistry ==
    /\ Running(NoUpstream)
    /\ Configured(DefaultConfig, EmptyRegistry)
    /\ EmptyDB

NextRegistry == register_challenge_validator

SpecRegistry == InitRegistry /\ [][NextRegistry]_vars

(***************************************************************************)
(* Authorization.create_all                                                *)
(***************************************************************************)
\* identifier values are strings of at most MaxValueLen characters
MaxValueLen == 4
Characters == {"*", ".", "a"}
IdentifierValues == UNION {[1..n -> Characters] : n \in 0..MaxValueLen}

\* str.startswith
startswith(value, prefix) ==
    /\ Len(value) >= Len(prefix)
    /\ SubSeq(value, 1, Len(prefix)) = prefix

\* the list that Authorization.create_all(identifier) returns for an
\* identifier of that value: its rows' status and wildcard columns
create_all(value) ==
    <<[status |-> "pending", wildcard |-> startswith(value, <<"*">>)]>>

create_authorizations ==
    \E value \in IdentifierValues :
      /\ call' = [fn |-> "Authorization.create_all", arg |-> value,
                  result |-> create_all(value)]
      /\ UNCHANGED <<nonces, nextNonce, db, inflight, tasks, nextTask, relay,
                     challenge_validators, config, last>>

InitCreateAll == Init
NextCreateAll == create_authorizations
SpecCreateAll == InitCreateAll /\ [][NextCreateAll]_vars

(***************************************************************************)
(* host_ip_middleware                                                      *)
(***************************************************************************)
\* the addresses that hosts and DNS records have
IPv4Addresses == {"192.0.2.1", "198.51.100.1"}
IPv6Addresses == {"2001:db8::1", "2001:db8::2"}
Addresses == IPv4Addresses \cup IPv6Addresses

\* the networks a deployment may whitelist, and host_ip in subnet
Subnets == {"192.0.2.0/24"}
InSubnet(host_ip, subnet) == subnet = "192.0.2.0/24" /\ host_ip = "192.0.2.1"

\* the configurations a server is constructed with
Configs == {Config(forwarded, subnets) :
               forwarded \in BOOLEAN, subnets \in SUBSET Subnets}

\* the addresses clients and reverse proxies connect from
ClientAddresses == IPv4Addresses
\* an X-Forwarded-For header lists the client and the proxies that passed
\* the request on: at most MaxForwarded addresses, each of them once
MaxForwarded == 2
Header(addresses) == [present |-> TRUE, addresses |-> addresses]
ForwardedHeaders ==
    {NoHeader} \cup {Header(addresses) :
                        addresses \in UNION {IterationOrders(S) :
                           S \in {T \in SUBSET ClientAddresses :
                                     Cardinality(T) \in 1..MaxForwarded}}}

\* a request as the middleware sees it: request.remote and the
\* X-Forwarded-For header
Connections == [remote : ClientAddresses, forwarded_for : ForwardedHeaders]

NoIP == ""
\* ipaddress.ip_address(text): the address, or ValueError for a text that is
\* not one address, such as a list of addresses
ip_address(addresses) == IF Len(addresses) = 1 THEN addresses[1] ELSE NoIP

\* what host_ip_middleware does with a request: the status of the response
\* it returns itself (500: the ValueError of ip_address leaves it), or 0 and
\* request["actual_ip"] when it calls the handler
host_ip_middleware(cfg, conn) ==
    LET forwarded_for == conn.forwarded_for
        host_ip == IF forwarded_for.present
                   THEN ip_address(forwarded_for.addresses)
                   ELSE conn.remote
    IN IF forwarded_for.present /\ ~cfg.use_forwarded_header
       THEN [status |-> 400, actual_ip |-> NoIP]
       ELSE IF host_ip = NoIP
       THEN [status |-> 500, actual_ip |-> NoIP]
       ELSE IF cfg.subnets # {}
               /\ ~\E subnet \in cfg.subnets : InSubnet(host_ip, subnet)
       THEN [status |-> 403, actual_ip |-> host_ip]
       ELSE [status |-> 0, actual_ip |-> host_ip]

\* the request object a handler receives from the middleware: the item
\* that the middleware attached to it
HandlerRequest(conn) ==
    [actual_ip |-> host_ip_middleware(config, conn).actual_ip]
Admitted(conn) == host_ip_middleware(config, conn).status = 0

\* a request to any route that the middleware answers itself: the handler
\* does not run, the response carries no nonce
host_ip_rejected ==
    \E conn \in Connections :
      LET decision == host_ip_middleware(config, conn) IN
      /\ ~Admitted(conn)
      /\ last' = [Observed(NoRequest("any"), {}, decision.status, "", FALSE,
                           NoAccount, 0) EXCEPT !.conn = conn]
      /\ UNCHANGED <<setup, nonces, nextNonce, db, inflight, tasks, nextTask,
                     relay>>

(***************************************************************************)
(* RequestIPDNSChallengeValidator                                          *)
(***************************************************************************)

\* what dns.asyncresolver.resolve(name, type_) does: it returns an answer
\* with at least one record, or it raises
ResolveErrors == {"NXDOMAIN", "NoAnswer", "Timeout", "NoNameservers"}
Answer(ips) == [kind |-> "answer", ips |-> ips]
Failure(kind) == [kind |-> kind, ips |-> {}]
ResolutionsOf(family) ==
    {Answer(ips) : ips \in (SUBSET family) \ {{}}}
        \cup {Failure(kind) : kind \in ResolveErrors}
\* the A and the AAAA query of one name: the name exists for both or for
\* neither
Resolutions ==
    {r \in [A : ResolutionsOf(IPv4Addresses),
            AAAA : ResolutionsOf(IPv6Addresses)] :
        r.A.kind = "NXDOMAIN" <=> r.AAAA.kind = "NXDOMAIN"}

\* contextlib.suppress(NXDOMAIN, NoAnswer), lines 48-50
Suppressed == {"NXDOMAIN", "NoAnswer"}

\* _query_record: the addresses of the answer, none after a suppressed
\* exception; any other exception leaves the method
query_record(resolution) ==
    IF resolution.kind = "answer" THEN [raised |-> "", ips |-> resolution.ips]
    ELSE IF resolution.kind \in Suppressed THEN [raised |-> "", ips |-> {}]
    ELSE [raised |-> resolution.kind, ips |-> {}]

\* query_records: "A" first, then "AAAA"
query_records(dns) ==
    LET a == query_record(dns.A)
        aaaa == query_record(dns.AAAA)
    IN IF a.raised # "" THEN a
       ELSE IF aaaa.raised # "" THEN aaaa
       ELSE [raised |-> "", ips |-> a.ips \cup aaaa.ips]

\* RequestIPDNSChallengeValidator.validate_challenge: what it raises, "None"
\* when it returns
RequestIP_validate_challenge(actual_ip, dns) ==
    LET resolved == query_records(dns) IN
    IF resolved.raised # "" THEN resolved.raised
    ELSE IF actual_ip \notin resolved.ips THEN "CouldNotValidateChallenge"
    ELSE "None"

request_ip_validate ==
    \E actual_ip \in Addresses, dns \in Resolutions :
      /\ call' = [fn |-> "validate_challenge",
                  arg |-> [actual_ip |-> actual_ip, dns |-> dns],
                  result |-> RequestIP_validate_challenge(actual_ip, dns)]
      /\ UNCHANGED <<nonces, nextNonce, db, inflight, tasks, nextTask, relay,
                     challenge_validators, config, last>>

InitRequestIP ==
    /\ Running(NoUpstream)
    /\ Configured(DefaultConfig, Registered(RequestIPDNSChallengeValidator))
    /\ EmptyDB
NextRequestIP == request_ip_validate
SpecRequestIP == InitRequestIP /\ [][NextRequestIP]_vars

\* outcomes of validator.validate_challenge
ValidatorOutcomes == {"ok", "could_not_validate", "other_exception"}

\* the outcomes that the validator bound to a challenge type can have for a
\* request: DummyValidator returns, RequestIPDNSChallengeValidator depends
\* on what the resolver does, another implementation may do anything
ValidatorResults_Raising(validator, request) == {"could_not_validate"}
ValidatorResults(validator, request) ==
    IF validator.name = "DummyValidator" THEN {"ok"}
    ELSE IF validator.name = "RequestIPDNSChallengeValidator"
    THEN {LET raised == RequestIP_validate_challenge(request.actual_ip, dns)
          IN IF raised = "None" THEN "ok"
             ELSE IF raised = "CouldNotValidateChallenge"
             THEN "could_not_validate"
             ELSE "other_exception" : dns \in Resolutions}
    ELSE IF validator = NoValidator THEN {"other_exception"}
    ELSE ValidatorOutcomes

(***************************************************************************)
(* Orders, authorizations and challenges                                   *)
(***************************************************************************)
OrderIds == 1..MaxOrders
AuthzIds == {<<o, name>> : o \in OrderIds, name \in Names}
ChallengeIds == {<<o, name, t>> : o \in OrderIds, name \in Names,
                                  t \in ChallengeTypes}
AuthzOf(cid) == <<cid[1], cid[2]>>
\* the challenges of an authorization that are rows of the table
ChallengesOf(aid) == {cid \in DOMAIN challenges : AuthzOf(cid) = aid}

\* Database.get_challenge / get_authz / get_order (session, kid, id):
\* the row with that id if it belongs to an order of the account
Owns_Any(kid, oid) == oid \in DOMAIN orders
Owns(kid, oid) == oid \in DOMAIN orders /\ orders[oid].account_kid = kid
get_challenge(kid, cid) == cid \in DOMAIN challenges /\ Owns(kid, cid[1])
get_authz(kid, aid) == aid \in DOMAIN authzs /\ Owns(kid, aid[1])

\* requests to the resource handlers: well-formed, or with a bad signature
ResourceDefects == {"none", "sig"}

\* Authorization.create_all(identifier): one PENDING authorization
Authorization_create_all(oid, name) ==
    [aid \in {<<oid, name>>} |-> "pending"]

\* Order.from_obj(account, obj, challenge_types): the order in PENDING with
\* one authorization per identifier and one PENDING challenge per type
Order_from_obj(kid, names) ==
    [account_kid |-> kid, status |-> "pending", names |-> names,
     csr |-> NoCsr, certificate |-> NoCert, proxied_url |-> 0]

Merge(f, g) == [x \in (DOMAIN f) \cup (DOMAIN g) |->
                   IF x \in DOMAIN g THEN g[x] ELSE f[x]]

NewAuthzs(oid, names) ==
    [aid \in {<<oid, name>> : name \in names} |->
        Authorization_create_all(oid, aid[2])[aid]]
NewChallenges(oid, names) ==
    [cid \in {<<oid, name, t>> : name \in names, t \in supported_challenges}
        |-> "pending"]

(***************************************************************************)
(* POST /new-order                                                         *)
(***************************************************************************)
new_order ==
    \E key \in Keys, n \in Issued, defect \in ResourceDefects,
       names \in (SUBSET Names) \ {{}} :
      LET reqUrl == url_for("new-order", 0)
          env == Envelope(key, defect, n, reqUrl, FALSE, FALSE)
          req == Request("new-order", n, env)
          v == VerifyRequest(env, reqUrl, 0, FALSE, FALSE)
          oid == Len(orders) + 1
      IN
      /\ UNCHANGED <<setup, accounts, certs, inflight, tasks, nextTask, relay>>
      /\ IF v.code # ""
         THEN ErrorResponse(req, v) /\ UNCHANGED <<orders, authzs, challenges>>
         ELSE /\ oid <= MaxOrders
              /\ orders' = Append(orders, Order_from_obj(v.account, names))
              /\ authzs' = Merge(authzs, NewAuthzs(oid, names))
              /\ challenges' = Merge(challenges, NewChallenges(oid, names))
              /\ Reply(req, {n}, 201, "", v.account, 0)

(***************************************************************************)
(* POST /challenge/{id}                                                    *)
(***************************************************************************)
\* a handler that settles the challenge itself, without a validation
ChallengeStarted_Settled(status) ==
    IF status = "pending" THEN "valid" ELSE status

\* the handler moves a PENDING challenge to PROCESSING
ChallengeStarted(status) == IF status = "pending" THEN "processing" ELSE status

NoSnapshot == [ch |-> "", az |-> "", sib |-> <<>>]

challenge_handler ==
    \E key \in Keys, n \in Issued, defect \in ResourceDefects,
       cid \in ChallengeIds, conn \in Connections :
      LET reqUrl == url_for("challenge", 0)
          env == Envelope(key, defect, n, reqUrl, FALSE, FALSE)
          req == Request("challenge", n, env)
          v == VerifyRequest(env, reqUrl, 0, FALSE, FALSE)
      IN
      /\ Admitted(conn)
      /\ UNCHANGED <<setup, accounts, orders, authzs, certs, inflight, relay>>
      /\ IF v.code # ""
         THEN ErrorResponse(req, v) /\ UNCHANGED <<challenges, tasks, nextTask>>
         ELSE IF ~get_challenge(v.account, cid)
         THEN PlainResponse(req, {n}, 404)
              /\ UNCHANGED <<challenges, tasks, nextTask>>
         ELSE /\ nextTask <= MaxTasks
              /\ challenges' = [challenges EXCEPT ![cid] = ChallengeStarted(@)]
              \* asyncio.ensure_future(self._handle_challenge_validate(...))
              /\ tasks' = tasks \cup {[tid |-> nextTask, kid |-> v.account,
                                       cid |-> cid, pc |-> "start",
                                       request |-> HandlerRequest(conn),
                                       snap |-> NoSnapshot]}
              /\ nextTask' = nextTask + 1
              /\ IssueNonce({n})
              /\ last' = [Observed(req, {n}, 200, "", TRUE, v.account, 0)
                             EXCEPT !.conn = conn]

(***************************************************************************)
(* _handle_challenge_validate: the task reads the challenge in a session   *)
(* of its own, awaits the validator, then writes and commits               *)
(***************************************************************************)
\* the challenge with its authorization and the authorization's challenges
\* (lazy="joined"), as loaded into the task's session
Snapshot(cid) ==
    [ch |-> challenges[cid],
     az |-> authzs[AuthzOf(cid)],
     sib |-> [c \in ChallengesOf(AuthzOf(cid)) |-> challenges[c]]]

validate_read ==
    \E t \in tasks :
      /\ t.pc = "start"
      /\ IF get_challenge(t.kid, t.cid)
         THEN tasks' = (tasks \ {t})
                         \cup {[t EXCEPT !.pc = "validating",
                                         !.snap = Snapshot(t.cid)]}
         ELSE \* challenge is None: challenge.type raises, the task ends
              tasks' = tasks \ {t}
      /\ UNCHANGED <<setup, nonces, nextNonce, db, inflight, nextTask, relay, last>>

\* lines 1059-1062: CouldNotValidateChallenge sets the status INVALID
AfterValidator(status, outcome) ==
    IF outcome = "could_not_validate" THEN "invalid" ELSE status

\* Challenge.validate(session): a PROCESSING challenge becomes VALID
Challenge_validate(status) == IF status = "processing" THEN "valid" ELSE status

\* Authorization.finalize, lines 55-58: VALID if any challenge is VALID
Authorization_finalize(az, chs) ==
    IF \E c \in DOMAIN chs : chs[c] = "valid" THEN "valid" ELSE az

validate_finish ==
    \E t \in tasks :
      \E outcome \in ValidatorResults(challenge_validators[t.cid[3]],
                                      t.request) :
      LET cid == t.cid
          aid == AuthzOf(cid)
          status == Challenge_validate(AfterValidator(t.snap.ch, outcome))
          chs == [c \in DOMAIN t.snap.sib |->
                     IF c = cid THEN status ELSE t.snap.sib[c]]
          az == Authorization_finalize(t.snap.az, chs)
          \* flush: UPDATE of the attributes the session changed
          flushed == IF status # t.snap.ch
                     THEN [challenges EXCEPT ![cid] = status]
                     ELSE challenges
          \* lines 61-66: DELETE the authorization's non-VALID challenges
          kept == IF az = "valid"
                  THEN {c \in DOMAIN flushed :
                           ~(AuthzOf(c) = aid /\ flushed[c] # "valid")}
                  ELSE DOMAIN flushed
      IN
      /\ t.pc = "validating"
      /\ tasks' = tasks \ {t}
      /\ UNCHANGED <<setup, nonces, nextNonce, accounts, orders, certs, inflight,
                     nextTask, relay, last>>
      /\ IF outcome = "other_exception"
         THEN \* the exception leaves the session block before the commit
              UNCHANGED <<authzs, challenges>>
         ELSE IF status # t.snap.ch /\ cid \notin DOMAIN challenges
         THEN \* the UPDATE matches no row (StaleDataError): nothing commits
              UNCHANGED <<authzs, challenges>>
         ELSE /\ challenges' = [c \in kept |-> flushed[c]]
              /\ authzs' = IF az # t.snap.az
                           THEN [authzs EXCEPT ![aid] = az]
                           ELSE authzs

(***************************************************************************)
(* POST /authz/{id}                                                        *)
(***************************************************************************)
AuthzUpdates == {"none", "deactivate"}

\* Authorization.update(upd): the client may deactivate the authorization
Authorization_update(status, upd) ==
    IF upd = "deactivate" /\ status = "pending" THEN "deactivated" ELSE status

authz_handler ==
    \E key \in Keys, n \in Issued, defect \in ResourceDefects,
       aid \in AuthzIds, upd \in AuthzUpdates :
      LET reqUrl == url_for("authz", 0)
          env == Envelope(key, defect, n, reqUrl, FALSE, FALSE)
          req == Request("authz", n, env)
          v == VerifyRequest(env, reqUrl, 0, FALSE, FALSE)
      IN
      /\ UNCHANGED <<setup, accounts, orders, challenges, certs, inflight, tasks,
                     nextTask, relay>>
      /\ IF v.code # ""
         THEN ErrorResponse(req, v) /\ UNCHANGED authzs
         ELSE IF ~get_authz(v.account, aid)
         THEN PlainResponse(req, {n}, 404) /\ UNCHANGED authzs
         ELSE /\ authzs' = [authzs EXCEPT ![aid] = Authorization_update(@, upd)]
              /\ Reply(req, {n}, 200, "", v.account, 0)

\* a database in which one account is registered (key 1), as new_account
\* leaves it
OneAccountDB ==
    /\ accounts = <<Account_from_obj(1)>>
    /\ orders = <<>>
    /\ authzs = <<>>
    /\ challenges = <<>>
    /\ certs = <<>>

InitChallenge == Constructed /\ OneAccountDB

NextChallenge ==
    \/ new_nonce
    \/ new_order
    \/ challenge_handler
    \/ validate_read
    \/ validate_finish
    \/ authz_handler

SpecChallenge == InitChallenge /\ [][NextChallenge]_vars

(***************************************************************************)
(* POST /revoke-cert (AcmeServerBase.revoke_cert, _verify_revocation)      *)
(***************************************************************************)
\* Account.validate_cert(cert): the account holds VALID authorizations for
\* all identifiers in the certificate
Account_validate_cert_Any(kid, cert) == TRUE
Account_validate_cert(kid, cert) ==
    \A name \in cert.names :
       \E aid \in DOMAIN authzs :
          aid[2] = name /\ Owns(kid, aid[1]) /\ authzs[aid] = "valid"

\* a revoke that flips the status: a second revocation restores VALID
Certificate_revoke_Toggle(cert, reason) ==
    [cert EXCEPT !.status = IF @ = "revoked" THEN "valid" ELSE "revoked",
                 !.reason = reason]

\* Certificate.revoke(reason)
Certificate_revoke(cert, reason) ==
    [cert EXCEPT !.status = "revoked", !.reason = reason]

\* revocation reasons a payload may carry: 0 is allowed, 7 is not
RevocationReasons == {0, 7}
AllowedReasons == {0}
\* certificates a payload may name: the stored ones and an unknown one
NamedCerts == 1..(Len(certs) + 1)

\* lines 393-401: an acme.messages.Error of _verify_request is swallowed
\* and the request goes on without an account
RevocationAccount(v) == IF v.code = "" THEN v.account ELSE NoAccount
RevocationProceeds(v) == TRUE

\* the error of the remote CA, shown to the client
UpstreamError == "rejectedIdentifier"

\* outcomes of self._client.certificate_revoke: True, False, an exception
RevocationOutcomes == {"revoked", "refused", "raises"}

\* certificate_revoke for the certificate c returned True, returned False,
\* or raised
UpstreamRevoked(c) ==
    [upstream EXCEPT !.calls = @ \cup {<<"certificate_revoke", c>>},
                     !.revoked = @ \cup {c}]
UpstreamRefused(c) ==
    [upstream EXCEPT !.calls = @ \cup {<<"certificate_revoke", c>>},
                     !.refusals = @ + 1]
UpstreamRaised(c) ==
    [upstream EXCEPT !.calls = @ \cup {<<"certificate_revoke", c>>}]

\* the remote CA after the call, if one was made
UpstreamAfter(c, outcome) ==
    CASE outcome = "revoked" -> UpstreamRevoked(c)
      [] outcome = "refused" -> UpstreamRefused(c)
      [] outcome = "raises"  -> UpstreamRaised(c)
      [] OTHER               -> upstream

\* line 1328: the local certificate is revoked if the remote CA revoked it
revocation_succeeded_Ignored(outcome) == TRUE
revocation_succeeded(outcome) == outcome = "revoked"

\* the revoke-cert handler; relayed: AcmeRelayBase.revoke_cert, which calls
\* the remote CA once _verify_revocation has returned
revocation_request(relayed) ==
    \E key \in Keys, n \in Issued, jwkForm \in BOOLEAN,
       defect \in ResourceDefects, c \in NamedCerts,
       reason \in RevocationReasons,
       outcome \in IF relayed THEN RevocationOutcomes ELSE {"not_asked"} :
      LET reqUrl == url_for("revoke-cert", 0)
          env == Envelope(key, defect, n, reqUrl, jwkForm, FALSE)
          req == Request("revoke-cert", n, env)
          v == VerifyRequest(env, reqUrl, 0, FALSE, FALSE)
          spent == SpentBy(v, n)
          account == RevocationAccount(v)
          fail(code) == Reply(req, spent, get_status(code), code, NoAccount, 0)
          \* _verify_revocation returned the certificate
          verified(acct) ==
              /\ upstream' = UpstreamAfter(c, outcome)
              /\ IF relayed /\ outcome = "raises"
                 THEN fail(UpstreamError) /\ UNCHANGED certs
                 ELSE IF relayed /\ ~revocation_succeeded(outcome)
                 THEN fail("unauthorized") /\ UNCHANGED certs
                 ELSE /\ certs' = [certs EXCEPT ![c] =
                                                Certificate_revoke(@, reason)]
                      /\ Reply(req, spent, 200, "", acct, 0)
      IN
      /\ UNCHANGED <<setup, accounts, orders, authzs, challenges, inflight, tasks,
                     nextTask>>
      /\ IF v.code # "" /\ ~RevocationProceeds(v)
         THEN ErrorResponse(req, v) /\ UNCHANGED <<certs, upstream>>
         ELSE IF ~env.parse_ok
         THEN \* JWS.json_loads raises a DeserializationError
              PlainResponse(req, spent, 500) /\ UNCHANGED <<certs, upstream>>
         ELSE IF reason \notin AllowedReasons
         THEN fail("badRevocationReason") /\ UNCHANGED <<certs, upstream>>
         ELSE IF c \notin DOMAIN certs
         THEN PlainResponse(req, spent, 404) /\ UNCHANGED <<certs, upstream>>
         ELSE IF account # NoAccount
         THEN IF ~Account_validate_cert(account, certs[c])
              THEN fail("unauthorized") /\ UNCHANGED <<certs, upstream>>
              ELSE verified(account)
         ELSE IF env.jwk = NoKey
         THEN \* jwk is None: jwk.key raises an AttributeError
              PlainResponse(req, spent, 500) /\ UNCHANGED <<certs, upstream>>
         ELSE IF certs[c].key # env.jwk
         THEN fail("malformed") /\ UNCHANGED <<certs, upstream>>
         ELSE IF ~jws_verify(env, env.jwk)
         THEN fail("unauthorized") /\ UNCHANGED <<certs, upstream>>
         ELSE verified(NoAccount)

\* AcmeServerBase.revoke_cert: no remote CA is asked
revoke_cert ==
    /\ revocation_request(FALSE)
    /\ UNCHANGED finalizing

\* a database as a completed issuance leaves it: the account of key 1 owns
\* a VALID order for a.test whose certificate was issued for the CSR key 2
IssuedCertDB ==
    /\ accounts = <<Account_from_obj(1)>>
    /\ orders = <<[account_kid |-> sha256_hex_digest(1), status |-> "valid",
                   names |-> {"a.test"},
                   csr |-> [key |-> 2, names |-> {"a.test"}, signed |-> TRUE],
                   certificate |-> 1, proxied_url |-> 0]>>
    /\ authzs = (<<1, "a.test">> :> "valid")
    /\ challenges = (<<1, "a.test", "http-01">> :> "valid")
    /\ certs = <<[order_id |-> 1, status |-> "valid", key |-> 2,
                  names |-> {"a.test"}, reason |-> 0, full_chain |-> FALSE]>>

InitRevoke == Constructed /\ IssuedCertDB

NextRevoke ==
    \/ new_nonce
    \/ accounts_handler
    \/ revoke_cert

SpecRevoke == InitRevoke /\ [][NextRevoke]_vars

\* IssuedCertDB with a second account: the holder of the certificate's key
\* pair has registered it as an account key and holds no authorization
KeyHolderDB ==
    /\ accounts = <<Account_from_obj(1), Account_from_obj(2)>>
    /\ orders = <<[account_kid |-> sha256_hex_digest(1), status |-> "valid",
                   names |-> {"a.test"},
                   csr |-> [key |-> 2, names |-> {"a.test"}, signed |-> TRUE],
                   certificate |-> 1, proxied_url |-> 0]>>
    /\ authzs = (<<1, "a.test">> :> "valid")
    /\ challenges = (<<1, "a.test", "http-01">> :> "valid")
    /\ certs = <<[order_id |-> 1, status |-> "valid", key |-> 2,
                  names |-> {"a.test"}, reason |-> 0, full_chain |-> FALSE]>>

InitRevokeKeyHolder == Constructed /\ KeyHolderDB

SpecRevokeKeyHolder == InitRevokeKeyHolder /\ [][NextRevoke]_vars

(***************************************************************************)
(* Orders: Order.validate, POST /order/{id}                                *)
(***************************************************************************)
Database_get_order(kid, oid) == Owns(kid, oid)
\* order ids a request may name: the stored ones and an unknown one
NamedOrders == 1..(Len(orders) + 1)
AuthzsOfOrder(oid) == {aid \in DOMAIN authzs : aid[1] = oid}
FailedAuthzStatuses == {"invalid", "expired", "deactivated", "revoked"}

\* Order.validate(): a PENDING order becomes INVALID if an authorization
\* failed and READY if all are VALID; any other status is kept
Order_validate(status, oid) ==
    IF status # "pending" THEN status
    ELSE IF \E aid \in AuthzsOfOrder(oid) : authzs[aid] \in FailedAuthzStatuses
    THEN "invalid"
    ELSE IF \A aid \in AuthzsOfOrder(oid) : authzs[aid] = "valid"
    THEN "ready"
    ELSE "pending"

\* _response(request, order.serialize(request)): the body is the order
ReplyOrder(req, spent, status, acct, oid, ostatus) ==
    /\ IssueNonce(spent)
    /\ last' = [Observed(req, spent, status, "", TRUE, acct, 0) EXCEPT
                   !.order = oid, !.ostatus = ostatus]

\* the status written back into the response is the reconciled one; the
\* handler does not commit
OrderRead_Stored(status, oid) == status
OrderRead(status, oid) == Order_validate(status, oid)

\* a handler that commits the status it reconciled
order_handler_Committing ==
    \E key \in Keys, n \in Issued, defect \in ResourceDefects,
       oid \in NamedOrders :
      LET reqUrl == url_for("order", 0)
          env == Envelope(key, defect, n, reqUrl, FALSE, TRUE)
          req == Request("order", n, env)
          v == VerifyRequest(env, reqUrl, 0, FALSE, TRUE)
      IN
      /\ UNCHANGED <<setup, accounts, authzs, challenges, certs, inflight, tasks,
                   nextTask, relay>>
      /\ IF v.code # ""
         THEN ErrorResponse(req, v) /\ UNCHANGED orders
         ELSE IF ~Database_get_order(v.account, oid)
         THEN PlainResponse(req, {n}, 404) /\ UNCHANGED orders
         ELSE /\ ReplyOrder(req, {n}, 200, v.account, oid,
                            OrderRead(orders[oid].status, oid))
              /\ orders' = [orders EXCEPT ![oid].status = OrderRead(@, oid)]

order_handler ==
    \E key \in Keys, n \in Issued, defect \in ResourceDefects,
       oid \in NamedOrders :
      LET reqUrl == url_for("order", 0)
          env == Envelope(key, defect, n, reqUrl, FALSE, TRUE)
          req == Request("order", n, env)
          v == VerifyRequest(env, reqUrl, 0, FALSE, TRUE)
      IN
      /\ UNCHANGED <<setup, db, inflight, tasks, nextTask, relay>>
      /\ IF v.code # ""
         THEN ErrorResponse(req, v)
         ELSE IF ~Database_get_order(v.account, oid)
         THEN PlainResponse(req, {n}, 404)
         ELSE ReplyOrder(req, {n}, 200, v.account, oid,
                         OrderRead(orders[oid].status, oid))

\* POST /orders/{id}: the response lists the signing account's orders
orders_handler ==
    \E key \in Keys, n \in Issued, defect \in ResourceDefects :
      LET reqUrl == url_for("orders", 0)
          env == Envelope(key, defect, n, reqUrl, FALSE, TRUE)
          req == Request("orders", n, env)
          v == VerifyRequest(env, reqUrl, 0, FALSE, TRUE)
      IN
      /\ UNCHANGED <<setup, db, inflight, tasks, nextTask, relay>>
      /\ IF v.code # ""
         THEN ErrorResponse(req, v)
         ELSE Reply(req, {n}, 200, "", v.account, 0)


(***************************************************************************)
(* Certificate signing requests                                            *)
(***************************************************************************)
\* a name as a CSR may spell it: DNS names are case-insensitive
UpperName == "A.TEST"
\* a name that no order is placed for
OtherName == "x.test"
\* the names of a CSR: those of the order, the same in another spelling,
\* one more, one less, or another name
CsrNameSets ==
    {Names, (Names \ {NameList[1]}) \cup {UpperName},
     Names \cup {OtherName}, Names \ {NameList[1]}, {OtherName}}
\* case folding of a DNS name
Fold(name) == IF name = UpperName THEN NameList[1] ELSE name
\* util.names_of(csr): CN and SANs, case-folded, deduplicated
names_of(csr) == {Fold(name) : name \in csr.names}
\* the key pairs a CSR is made for
CsrKeys == {NumKeys, WeakKey}
\* the CSRs a finalize payload may carry
Csr(key, names, signed) == [key |-> key, names |-> names, signed |-> signed]
\* the CSRs a finalize payload may carry: properly made for any of the
\* names, for a key that is too small, or with an invalid signature
Csrs == {Csr(NumKeys, names, TRUE) : names \in CsrNameSets}
           \cup {Csr(WeakKey, names, TRUE) : names \in {Names, {OtherName}}}
           \cup {Csr(NumKeys, Names, FALSE)}

\* Order.validate_csr(csr): the CSR names exactly the order's identifiers
Order_validate_csr_Subset(order, csr) == names_of(csr) \subseteq order.names
Order_validate_csr(order, csr) == names_of(csr) = order.names

\* _validate_order, lines 761-786: the checks in the order of the code;
\* "" when the order and the CSR pass
CsrChecks_NoIdentifiers(order, csr) ==
    IF key_size(csr.key) < rsa_min_keysize THEN "badPublicKey"
    ELSE IF ~csr.signed THEN "badCSR"
    ELSE ""
CsrChecks(order, csr) ==
    IF key_size(csr.key) < rsa_min_keysize THEN "badPublicKey"
    ELSE IF ~csr.signed THEN "badCSR"
    ELSE IF ~Order_validate_csr(order, csr) THEN "badCSR"
    ELSE ""

StatusChecks_NoReadyCheck(status) ==
    IF status = "invalid" THEN "orderInvalid" ELSE ""
StatusChecks_NoInvalidCheck(status) ==
    IF status # "ready" THEN "orderNotReady" ELSE ""
StatusChecks(status) ==
    IF status = "invalid" THEN "orderInvalid"
    ELSE IF status # "ready" THEN "orderNotReady"
    ELSE ""

validate_order(oid, csr) ==
    LET status == Order_validate(orders[oid].status, oid) IN
    IF StatusChecks(status) # "" THEN StatusChecks(status)
    ELSE CsrChecks(orders[oid], csr)

\* line 770: the CSR is parsed from the payload after the status checks
ParsedCsr(oid, csr) ==
    IF StatusChecks(Order_validate(orders[oid].status, oid)) # ""
    THEN NoCsr ELSE csr

\* the acme.messages.Error raised by _validate_order, through
\* error_middleware
OrderRejected(req, code, oid, csr) ==
    /\ IssueNonce({req.nonce})
    /\ last' = [Observed(req, {req.nonce}, get_status(code), code, TRUE,
                         NoAccount, 0) EXCEPT !.order = oid, !.csr = csr]

(***************************************************************************)
(* POST /order/{id}/finalize (AcmeServerBase.finalize_order).  The handler *)
(* reads the order in _validate_order and is suspended at its commit       *)
(***************************************************************************)
\* what a session has loaded of an order
OrderSnapshot(oid) ==
    [status |-> orders[oid].status, certificate |-> orders[oid].certificate]
NotLoaded == [status |-> "", certificate |-> NoCert]

\* a coroutine working on an order: a handler (id 0) or a background task
Coroutine(id, kind, pc, kid, oid, req, csr, snap) ==
    [id |-> id, kind |-> kind, pc |-> pc, kid |-> kid, oid |-> oid,
     req |-> req, csr |-> csr, snap |-> snap]

\* asyncio.ensure_future(...): a task that has not run yet
Launched(kind, kid, oid) ==
    Coroutine(nextTask, kind, "start", kid, oid, NoRequest("none"), NoCsr,
              NotLoaded)

\* a handler that does not keep the CSR it validated
StoredCsr_Unset(csr) == NoCsr

\* order.csr = csr
StoredCsr(csr) == csr

\* <<defect, csr>>: a request in order (account, live nonce, stored order)
\* with any CSR, or a request with one defect and the CSR for the names
FinalizeInputs(key, n, oid) ==
    {<<d, Csr(NumKeys, Names, TRUE)>> : d \in ResourceDefects}
        \cup IF /\ get_account_by_key(key) # NoAccount
                /\ n \in nonces
                /\ oid \in DOMAIN orders
             THEN {<<"none", csr>> : csr \in Csrs}
             ELSE {}

\* _validate_order in the finalize handler `kind`
validate_order_request(kind) ==
    \E key \in Keys, n \in Issued, oid \in NamedOrders :
      \E input \in FinalizeInputs(key, n, oid) :
      LET defect == input[1]
          csr == input[2]
          reqUrl == url_for("finalize-order", 0)
          env == Envelope(key, defect, n, reqUrl, FALSE, FALSE)
          req == Request("finalize-order", n, env)
          v == VerifyRequest(env, reqUrl, 0, FALSE, FALSE)
      IN
      /\ UNCHANGED <<setup, db, inflight, tasks, nextTask, upstream>>
      /\ IF v.code # ""
         THEN ErrorResponse(req, v) /\ UNCHANGED finalizing
         ELSE IF ~Database_get_order(v.account, oid)
         THEN PlainResponse(req, {n}, 404) /\ UNCHANGED finalizing
         ELSE IF validate_order(oid, csr) # ""
         THEN OrderRejected(req, validate_order(oid, csr), oid,
                            ParsedCsr(oid, csr))
              /\ UNCHANGED finalizing
         ELSE \* order.csr, order.status are set; await session.commit()
              /\ nonces' = nonces \ {n}
              /\ finalizing' = finalizing \cup
                    {Coroutine(0, kind, "validated", v.account, oid,
                               req, StoredCsr(csr), OrderSnapshot(oid))}
              /\ UNCHANGED <<nextNonce, last>>

\* AcmeServerBase.finalize_order up to its commit
finalize_order_begin ==
    /\ validate_order_request("finalize_order")
    /\ UNCHANGED orders

\* _response(request, serialized, headers={"Location": ...})
OrderFinalized(h, ostatus) ==
    /\ IssueNonce({})
    /\ last' = [Observed(h.req, {}, 200, "", TRUE, h.kid, 0) EXCEPT
                   !.order = h.oid, !.ostatus = ostatus, !.csr = h.csr]

\* the commit writes the attributes the handler set and the task is launched
finalize_order_commit ==
    \E h \in finalizing :
      /\ h.kind = "finalize_order"
      /\ h.pc = "validated"
      /\ nextTask <= MaxTasks
      /\ orders' = [orders EXCEPT ![h.oid].csr = h.csr,
                                  ![h.oid].status = "processing"]
      /\ finalizing' = (finalizing \ {h})
                          \cup {Launched("handle_order_finalize", h.kid, h.oid)}
      /\ nextTask' = nextTask + 1
      /\ OrderFinalized(h, "processing")
      /\ UNCHANGED <<setup, accounts, authzs, challenges, certs, inflight, tasks,
                     upstream>>

(***************************************************************************)
(* Background tasks on an order: each begins with                          *)
(* order = await self._db.get_order(session, kid, order_id)                *)
(***************************************************************************)
load_order ==
    \E t \in finalizing :
      /\ t.pc = "start"
      /\ finalizing' = (finalizing \ {t})
                          \cup {[t EXCEPT !.pc = "loaded",
                                          !.snap = OrderSnapshot(t.oid)]}
      /\ UNCHANGED <<setup, nonces, nextNonce, db, inflight, tasks, nextTask,
                     upstream, last>>

\* session.commit() after order.status = status: the UPDATE carries the
\* status only if it differs from the one the session loaded
WriteStatus(t, status) ==
    IF status # t.snap.status THEN status ELSE orders[t.oid].status

\* models.Certificate(status=VALID, cert=cert) for the order's CSR
Certificate_new(oid) ==
    [order_id |-> oid, status |-> "valid", key |-> orders[oid].csr.key,
     names |-> names_of(orders[oid].csr), reason |-> 0, full_chain |-> FALSE]

\* a task that declares the order VALID without storing a certificate
StoreCertificate_StatusOnly(t) ==
    /\ certs' = certs
    /\ orders' = [orders EXCEPT ![t.oid].status = WriteStatus(t, "valid")]

\* order.certificate = Certificate(...); order.status = VALID; commit
StoreCertificate(t) ==
    /\ certs' = Append(certs, Certificate_new(t.oid))
    /\ orders' = [orders EXCEPT ![t.oid].certificate = Len(certs) + 1,
                                ![t.oid].status = WriteStatus(t, "valid")]

\* the task ends without a commit: nothing of the session is written
Abandon(t) == UNCHANGED <<orders, certs>>

(***************************************************************************)
(* AcmeCA.handle_order_finalize                                            *)
(***************************************************************************)
\* generate_cert_from_csr returns the certificate or raises
SigningOutcomes == {"signed", "raises"}

ca_handle_order_finalize ==
    \E t \in finalizing, outcome \in SigningOutcomes :
      /\ t.kind = "handle_order_finalize"
      /\ t.pc = "loaded"
      /\ finalizing' = finalizing \ {t}
      /\ IF outcome = "signed" THEN StoreCertificate(t) ELSE Abandon(t)
      /\ UNCHANGED <<setup, nonces, nextNonce, accounts, authzs, challenges,
                     inflight, tasks, nextTask, upstream, last>>

\* databases in which the account of key 1 has placed an order for all
\* names: a new order, one whose challenges were answered, or one with
\* deactivated authorizations
OrderDBs == {"pending", "valid", "deactivated"}
PlacedOrderDB(az) ==
    /\ accounts = <<Account_from_obj(1)>>
    /\ orders = <<Order_from_obj(sha256_hex_digest(1), Names)>>
    /\ authzs = [aid \in {<<1, name>> : name \in Names} |-> az]
    /\ challenges =
         [cid \in {<<1, name, t>> : name \in Names,
                   t \in IF az = "valid" THEN {"http-01"} ELSE ChallengeTypes}
            |-> IF az = "valid" THEN "valid" ELSE "pending"]
    /\ certs = <<>>

\* a server of any configuration that validates with the request-IP DNS
\* validator; the account of key 1 has placed an order
InitIP ==
    /\ Running(NoUpstream)
    /\ \E cfg \in Configs :
          Configured(cfg, Registered(RequestIPDNSChallengeValidator))
    /\ PlacedOrderDB("pending")

NextIP ==
    \/ host_ip_rejected
    \/ new_nonce
    \/ challenge_handler

SpecIP == InitIP /\ [][NextIP]_vars

InitCA == Constructed /\ \E az \in OrderDBs : PlacedOrderDB(az)

NextCA ==
    \/ new_nonce
    \/ order_handler
    \/ finalize_order_begin
    \/ finalize_order_commit
    \/ load_order
    \/ ca_handle_order_finalize

SpecCA == InitCA /\ [][NextCA]_vars

\* the event loop runs every coroutine that is ready: a handler at its
\* commit and a launched task are not postponed forever
SpecCAFair ==
    /\ SpecCA
    /\ WF_vars(finalize_order_commit)
    /\ WF_vars(load_order)
    /\ WF_vars(ca_handle_order_finalize)

\* a CA that issues and revokes: the order's challenges were validated, and
\* the certificate that a finalize request has issued may be revoked
InitCARevoke == Constructed /\ PlacedOrderDB("valid")

NextCARevoke ==
    \/ new_nonce
    \/ finalize_order_begin
    \/ finalize_order_commit
    \/ load_order
    \/ ca_handle_order_finalize
    \/ revoke_cert

SpecCARevoke == InitCARevoke /\ [][NextCARevoke]_vars

\* a server whose clients read their orders and deactivate authorizations:
\* the account of key 1 has placed an order
InitOrderReads == Constructed /\ \E az \in OrderDBs : PlacedOrderDB(az)

NextOrderReads ==
    \/ new_nonce
    \/ authz_handler
    \/ order_handler
    \/ orders_handler

SpecOrderReads == InitOrderReads /\ [][NextOrderReads]_vars

(***************************************************************************)
(* AcmeCA.certificate                                                      *)
(***************************************************************************)
\* Database.get_certificate(session, kid, certificate_id): the certificate
\* with that id if it belongs to an order of the account
Database_get_certificate(kid, cert) ==
    cert \in DOMAIN certs /\ Owns(kid, certs[cert].order_id)
\* the body is the certificate followed by the CA's certificate
ca_certificate ==
    \E key \in Keys, n \in Issued, defect \in ResourceDefects,
       cert \in NamedCerts :
      LET reqUrl == url_for("certificate", 0)
          env == Envelope(key, defect, n, reqUrl, FALSE, TRUE)
          req == Request("certificate", n, env)
          v == VerifyRequest(env, reqUrl, 0, FALSE, TRUE)
      IN
      /\ UNCHANGED <<setup, db, inflight, tasks, nextTask, relay>>
      /\ IF v.code # ""
         THEN ErrorResponse(req, v)
         ELSE IF ~Database_get_certificate(v.account, cert)
         THEN PlainResponse(req, {n}, 404)
         ELSE /\ IssueNonce({n})
              /\ last' = [Observed(req, {n}, 200, "", TRUE, v.account, 0)
                             EXCEPT !.order = certs[cert].order_id]

\* a CA with two accounts: the account of key 1 has placed an order whose
\* authorizations are PENDING or VALID, or holds an issued certificate;
\* the account of key 2 has no order
TwoAccountsDB(az) ==
    /\ accounts = <<Account_from_obj(1), Account_from_obj(2)>>
    /\ orders = <<Order_from_obj(sha256_hex_digest(1), Names)>>
    /\ authzs = [aid \in {<<1, name>> : name \in Names} |-> az]
    /\ challenges =
         [cid \in {<<1, name, t>> : name \in Names,
                   t \in IF az = "valid" THEN {"http-01"} ELSE ChallengeTypes}
            |-> IF az = "valid" THEN "valid" ELSE "pending"]
    /\ certs = <<>>

\* the server after it has issued three nonces, one of which a request
\* has used
NoncesIssued ==
    /\ Configured(DefaultConfig, Registered(SomeValidator))
    /\ upstream = NoUpstream
    /\ nonces = {2, 3}
    /\ nextNonce = 4
    /\ inflight = [k \in ClientKeys |-> 0]
    /\ tasks = {}
    /\ nextTask = 1
    /\ finalizing = {}
    /\ last = Observed(NoRequest("new-nonce"), {}, 204, "", TRUE,
                       NoAccount, 0)

InitOwnership ==
    /\ NoncesIssued
    /\ \/ KeyHolderDB
       \/ \E az \in {"pending", "valid"} : TwoAccountsDB(az)

NextOwnership ==
    \/ order_handler
    \/ authz_handler
    \/ challenge_handler
    \/ finalize_order_begin
    \/ finalize_order_commit
    \/ ca_certificate

SpecOwnership == InitOwnership /\ [][NextOwnership]_vars

(***************************************************************************)
(* The issuance scenario of a CA that validates with DummyValidator: one   *)
(* client sends its requests in order, each of them well-formed           *)
(***************************************************************************)
\* HEAD /new-nonce, once, for the first request
scenario_new_nonce ==
    /\ nextNonce = 1
    /\ new_nonce

\* new-account with the client's key, whichever it is
scenario_new_account ==
    /\ accounts = <<>>
    /\ \A key \in ClientKeys : inflight[key] = 0
    /\ new_account_begin
    /\ inflight' # inflight

scenario_account_created ==
    /\ new_account_commit
    /\ last'.status = 201

\* new-order for one identifier
scenario_new_order ==
    /\ orders = <<>>
    /\ new_order
    /\ Len(orders') = 1
    /\ Cardinality(orders'[1].names) = 1

\* POST to one challenge of an authorization none of whose challenges was
\* answered yet
scenario_challenge ==
    /\ challenge_handler
    /\ \E cid \in DOMAIN challenges :
          /\ \A c \in ChallengesOf(AuthzOf(cid)) : challenges[c] = "pending"
          /\ challenges'[cid] = "processing"
    /\ tasks' # tasks

\* no background work is pending
Idle == tasks = {} /\ finalizing = {}
ChallengesAnswered ==
    \A aid \in DOMAIN authzs :
       \E c \in ChallengesOf(aid) : challenges[c] # "pending"

\* the client polls the order after it answered the challenges; a poll that
\* would show the status the client saw last is left out
scenario_poll_order ==
    /\ orders # <<>>
    /\ ChallengesAnswered
    /\ ~(last.ep = "order" /\ last.ostatus = OrderRead(orders[1].status, 1))
    /\ order_handler
    /\ last'.status = 200

\* finalize with a CSR for the order's identifiers, once the order was seen
\* READY
scenario_finalize_begin ==
    /\ last.ep = "order"
    /\ last.ostatus = "ready"
    /\ finalize_order_begin
    /\ finalizing' # finalizing
    /\ \A h \in finalizing' : h.csr = Csr(NumKeys, orders[h.oid].names, TRUE)

\* generate_cert_from_csr returns the certificate
scenario_sign ==
    /\ ca_handle_order_finalize
    /\ certs' # certs

\* POST /certificate/{id}, once the order was seen VALID
scenario_certificate ==
    /\ last.ep = "order"
    /\ last.ostatus = "valid"
    /\ ca_certificate
    /\ last'.status = 200

\* the server with DummyValidator registered, at any stage of the scenario:
\* before the account is created, before the order is placed, with the
\* order placed, with its challenges validated, with the certificate issued
InitScenario ==
    /\ Running(NoUpstream)
    /\ Configured(DefaultConfig, Registered(DummyValidator))
    /\ \/ EmptyDB
       \/ OneAccountDB
       \/ PlacedOrderDB("pending")
       \/ PlacedOrderDB("valid")
       \/ IssuedCertDB

NextScenario ==
    \/ scenario_new_nonce
    \/ scenario_new_account
    \/ scenario_account_created
    \/ scenario_new_order
    \/ scenario_challenge
    \/ validate_read
    \/ validate_finish
    \/ scenario_poll_order
    \/ scenario_finalize_begin
    \/ finalize_order_commit
    \/ load_order
    \/ scenario_sign
    \/ scenario_certificate

SpecScenario == InitScenario /\ [][NextScenario]_vars

\* the requests of the client, and the coroutines of the server: handlers
\* at their commit and background tasks
ScenarioRequests ==
    \/ scenario_new_nonce
    \/ scenario_new_account
    \/ scenario_new_order
    \/ scenario_challenge
    \/ scenario_poll_order
    \/ scenario_finalize_begin
    \/ scenario_certificate
ScenarioCoroutines ==
    \/ scenario_account_created
    \/ validate_read
    \/ validate_finish
    \/ finalize_order_commit
    \/ load_order
    \/ scenario_sign

\* the client sends a request that is due, and the event loop runs a
\* coroutine that is ready
SpecScenarioFair ==
    /\ SpecScenario
    /\ WF_vars(ScenarioRequests)
    /\ WF_vars(ScenarioCoroutines)

(***************************************************************************)
(* The internal ACME client (self._client) of the relays                   *)
(***************************************************************************)
\* a client operation for the local order oid returned
Called(op, oid) == [upstream EXCEPT !.calls = @ \cup {<<op, oid>>}]
\* a client operation for the local order oid raised
Failed(op, oid) ==
    [upstream EXCEPT !.calls = @ \cup {<<op, oid>>}, !.failed = @ \cup {oid}]
\* order_create returned a new upstream order
Created(oid) ==
    [upstream EXCEPT !.calls = @ \cup {<<"order_create", oid>>},
                     !.orders = @ + 1]
\* the calls of a sequence of operations that all returned
CalledAll(ops, oid) ==
    [upstream EXCEPT !.calls = @ \cup {<<op, oid>> : op \in ops}]
\* the last operation of the sequence raised, or returned a short chain
FailedLast(ops, oid) ==
    [upstream EXCEPT !.calls = @ \cup {<<op, oid>> : op \in ops},
                     !.failed = @ \cup {oid}]

\* asyncio.wait_for(...) gave up on the last operation of the sequence
TimedOut(ops, oid) == [FailedLast(ops, oid) EXCEPT !.timeouts = @ + 1]

ClientOutcomes == {"returns", "raises"}

(***************************************************************************)
(* AcmeBroker.handle_order_finalize                                        *)
(***************************************************************************)
\* line 1391: order_create is awaited before the try block
broker_order_create ==
    \E t \in finalizing, outcome \in ClientOutcomes :
      /\ t.kind = "handle_order_finalize"
      /\ t.pc = "loaded"
      /\ IF outcome = "returns"
         THEN /\ upstream' = Created(t.oid)
              /\ finalizing' = (finalizing \ {t})
                                  \cup {[t EXCEPT !.pc = "created"]}
         ELSE \* the exception ends the task before the commit
              /\ upstream' = Failed("order_create", t.oid)
              /\ finalizing' = finalizing \ {t}
      /\ UNCHANGED <<setup, nonces, nextNonce, db, inflight, tasks, nextTask, last>>

\* how far lines 1394-1396 get: the upstream step that fails, if any
BrokerOutcomes ==
    {"stored", "short_chain", "authorizations_complete", "order_finalize",
     "certificate_get"}
BrokerSteps == <<"authorizations_complete", "order_finalize",
                 "certificate_get">>
\* the operations called up to and including the one named
StepsUpTo(op) ==
    {BrokerSteps[i] : i \in {j \in 1..Len(BrokerSteps) :
                               \E k \in j..Len(BrokerSteps) : BrokerSteps[k] = op}}

\* an except clause that only logs: the order is not touched
StoreInvalid_LogOnly(t) == UNCHANGED <<orders, certs>>

\* order.status = INVALID; commit
StoreInvalid(t) ==
    /\ orders' = [orders EXCEPT ![t.oid].status = WriteStatus(t, "invalid")]
    /\ UNCHANGED certs

\* models.Certificate(status=VALID, cert=certs[0], full_chain=full_chain)
Certificate_chain(oid) == [Certificate_new(oid) EXCEPT !.full_chain = TRUE]

\* order.certificate = Certificate(..., full_chain=...); order.status = VALID
StoreFullChain(t) ==
    /\ certs' = Append(certs, Certificate_chain(t.oid))
    /\ orders' = [orders EXCEPT ![t.oid].certificate = Len(certs) + 1,
                                ![t.oid].status = WriteStatus(t, "valid")]

\* _obtain_and_store_cert with a chain of at least two certificates, or a
\* shorter one
obtain_and_store_cert(t, chain_ok) ==
    IF chain_ok THEN StoreFullChain(t) ELSE StoreInvalid(t)

broker_handle_order_finalize ==
    \E t \in finalizing, outcome \in BrokerOutcomes :
      /\ t.kind = "handle_order_finalize"
      /\ t.pc = "created"
      /\ finalizing' = finalizing \ {t}
      /\ IF outcome \in {"stored", "short_chain"}
         THEN /\ upstream' = IF outcome = "stored"
                             THEN CalledAll(StepsUpTo("certificate_get"), t.oid)
                             ELSE FailedLast(StepsUpTo("certificate_get"), t.oid)
              /\ obtain_and_store_cert(t, outcome = "stored")
         ELSE \* CouldNotCompleteChallenge or AcmeClientException
              /\ upstream' = FailedLast(StepsUpTo(outcome), t.oid)
              /\ StoreInvalid(t)
      /\ UNCHANGED <<setup, nonces, nextNonce, accounts, authzs, challenges,
                     inflight, tasks, nextTask, last>>

InitBroker == Constructed /\ OneAccountDB

NextBroker ==
    \/ new_nonce
    \/ new_order
    \/ authz_handler
    \/ challenge_handler
    \/ validate_read
    \/ validate_finish
    \/ order_handler
    \/ finalize_order_begin
    \/ finalize_order_commit
    \/ load_order
    \/ broker_order_create
    \/ broker_handle_order_finalize

SpecBroker == InitBroker /\ [][NextBroker]_vars

(***************************************************************************)
(* AcmeProxy: new_order, _complete_challenges, finalize_order and          *)
(* handle_order_finalize                                                   *)
(***************************************************************************)
\* ca_order.url of the upstream order that order_create returns next
NextUpstreamUrl == upstream.orders + 1

\* Order.from_obj(...) with order.proxied_url = ca_order.url
ProxiedOrder_NoUrl(kid, names, url) == Order_from_obj(kid, names)
ProxiedOrder(kid, names, url) ==
    [Order_from_obj(kid, names) EXCEPT !.proxied_url = url]

proxy_new_order ==
    \E key \in Keys, n \in Issued, defect \in ResourceDefects,
       names \in (SUBSET Names) \ {{}}, outcome \in ClientOutcomes :
      LET reqUrl == url_for("new-order", 0)
          env == Envelope(key, defect, n, reqUrl, FALSE, FALSE)
          req == Request("new-order", n, env)
          v == VerifyRequest(env, reqUrl, 0, FALSE, FALSE)
          oid == Len(orders) + 1
      IN
      /\ UNCHANGED <<setup, accounts, certs, inflight, tasks>>
      /\ IF v.code # ""
         THEN /\ ErrorResponse(req, v)
              /\ UNCHANGED <<orders, authzs, challenges, nextTask, relay>>
         ELSE IF outcome = "raises"
         THEN \* order_create raises before the order is made
              /\ HandlerError(req, UpstreamError)
              /\ upstream' = Failed("order_create", oid)
              /\ UNCHANGED <<orders, authzs, challenges, nextTask, finalizing>>
         ELSE /\ oid <= MaxOrders
              /\ nextTask <= MaxTasks
              /\ upstream' = Created(oid)
              /\ orders' = Append(orders,
                              ProxiedOrder(v.account, names, NextUpstreamUrl))
              /\ authzs' = Merge(authzs, NewAuthzs(oid, names))
              /\ challenges' = Merge(challenges, NewChallenges(oid, names))
              /\ finalizing' = finalizing
                    \cup {Launched("complete_challenges", v.account, oid)}
              /\ nextTask' = nextTask + 1
              /\ Reply(req, {n}, 201, "", v.account, 0)

\* _complete_challenges: order_get, then authorizations_complete in a try
ChallengeOutcomes == {"completed", "could_not_complete", "order_get_raises"}

proxy_complete_challenges ==
    \E t \in finalizing, outcome \in ChallengeOutcomes :
      /\ t.kind = "complete_challenges"
      /\ t.pc = "loaded"
      /\ finalizing' = finalizing \ {t}
      /\ CASE outcome = "completed" ->
                \* nothing was changed: the commit writes nothing
                /\ upstream' = CalledAll({"order_get",
                                          "authorizations_complete"}, t.oid)
                /\ UNCHANGED <<orders, certs>>
           [] outcome = "could_not_complete" ->
                /\ upstream' = FailedLast({"order_get",
                                           "authorizations_complete"}, t.oid)
                /\ StoreInvalid(t)
           [] outcome = "order_get_raises" ->
                /\ upstream' = Failed("order_get", t.oid)
                /\ Abandon(t)
      /\ UNCHANGED <<setup, nonces, nextNonce, accounts, authzs, challenges,
                     inflight, tasks, nextTask, last>>

\* AcmeProxy.finalize_order up to its upstream calls
proxy_finalize_order_begin ==
    /\ validate_order_request("proxy_finalize_order")
    /\ UNCHANGED orders

\* order_get and order_finalize under asyncio.wait_for(..., 10.0)
ProxyFinalizeOutcomes == {"finalized", "timeout", "raises"}

\* lines 1522-1528: INVALID on asyncio.TimeoutError, else PROCESSING
ProxyFinalizeStatus(outcome) ==
    IF outcome = "timeout" THEN "invalid" ELSE "processing"

\* line 1534: the task is scheduled for an order set to PROCESSING
order_processing_Always(status) == TRUE
order_processing(status) == status = "processing"

proxy_finalize_order_commit ==
    \E h \in finalizing, outcome \in ProxyFinalizeOutcomes :
      /\ h.kind = "proxy_finalize_order"
      /\ h.pc = "validated"
      /\ UNCHANGED <<setup, accounts, authzs, challenges, certs, inflight, tasks>>
      /\ CASE outcome \in {"finalized", "timeout"} ->
                LET status == ProxyFinalizeStatus(outcome) IN
                /\ upstream' = IF outcome = "timeout"
                               THEN TimedOut({"order_get", "order_finalize"},
                                             h.oid)
                               ELSE CalledAll({"order_get", "order_finalize"},
                                              h.oid)
                /\ orders' = [orders EXCEPT ![h.oid].csr = h.csr,
                                            ![h.oid].status = status]
                /\ IF order_processing(status)
                   THEN /\ nextTask <= MaxTasks
                        /\ finalizing' = (finalizing \ {h}) \cup
                              {Launched("handle_order_finalize", h.kid, h.oid)}
                        /\ nextTask' = nextTask + 1
                   ELSE /\ finalizing' = finalizing \ {h}
                        /\ nextTask' = nextTask
                /\ OrderFinalized(h, status)
           [] outcome = "raises" ->
                \* an error of the remote CA leaves the handler: no commit
                /\ upstream' = FailedLast({"order_get", "order_finalize"}, h.oid)
                /\ finalizing' = finalizing \ {h}
                /\ IssueNonce({})
                /\ last' = [Observed(h.req, {}, get_status(UpstreamError),
                                     UpstreamError, TRUE, NoAccount, 0)
                               EXCEPT !.order = h.oid, !.csr = h.csr]
                /\ UNCHANGED <<orders, nextTask>>

\* AcmeProxy.handle_order_finalize: order_get, _obtain_and_store_cert
ProxyStoreOutcomes == {"stored", "short_chain", "raises"}

proxy_handle_order_finalize ==
    \E t \in finalizing, outcome \in ProxyStoreOutcomes :
      /\ t.kind = "handle_order_finalize"
      /\ t.pc = "loaded"
      /\ finalizing' = finalizing \ {t}
      /\ CASE outcome = "stored" ->
                /\ upstream' = CalledAll({"order_get", "certificate_get"}, t.oid)
                /\ obtain_and_store_cert(t, TRUE)
           [] outcome = "short_chain" ->
                /\ upstream' = FailedLast({"order_get", "certificate_get"}, t.oid)
                /\ obtain_and_store_cert(t, FALSE)
           [] outcome = "raises" ->
                /\ upstream' = FailedLast({"order_get", "certificate_get"}, t.oid)
                /\ Abandon(t)
      /\ UNCHANGED <<setup, nonces, nextNonce, accounts, authzs, challenges,
                     inflight, tasks, nextTask, last>>

\* the remote CA after one order was relayed to it and its challenges
\* were completed
OneUpstreamOrder ==
    [orders |-> 1,
     calls |-> {<<"order_create", 1>>, <<"order_get", 1>>,
                <<"authorizations_complete", 1>>},
     failed |-> {}, timeouts |-> 0, revoked |-> {}, refusals |-> 0]

\* PlacedOrderDB as the proxy leaves it: the order names its upstream order
ProxiedOrderDB(az) ==
    /\ accounts = <<Account_from_obj(1)>>
    /\ orders = <<[Order_from_obj(sha256_hex_digest(1), Names) EXCEPT
                      !.proxied_url = 1]>>
    /\ authzs = [aid \in {<<1, name>> : name \in Names} |-> az]
    /\ challenges =
         [cid \in {<<1, name, t>> : name \in Names,
                   t \in IF az = "valid" THEN {"http-01"} ELSE ChallengeTypes}
            |-> IF az = "valid" THEN "valid" ELSE "pending"]
    /\ certs = <<>>

InitProxy ==
    \/ Started(NoUpstream) /\ OneAccountDB
    \/ Started(OneUpstreamOrder) /\ \E az \in OrderDBs : ProxiedOrderDB(az)

NextProxy ==
    \/ new_nonce
    \/ proxy_new_order
    \/ proxy_complete_challenges
    \/ order_handler
    \/ proxy_finalize_order_begin
    \/ proxy_finalize_order_commit
    \/ load_order
    \/ proxy_handle_order_finalize

SpecProxy == InitProxy /\ [][NextProxy]_vars

(***************************************************************************)
(* AcmeRelayBase.revoke_cert                                               *)
(***************************************************************************)
relay_revoke_cert ==
    /\ revocation_request(TRUE)
    /\ UNCHANGED finalizing

\* KeyHolderDB as a relay leaves it: the certificate has its full chain
RelayedCertDB ==
    /\ accounts = <<Account_from_obj(1), Account_from_obj(2)>>
    /\ orders = <<[account_kid |-> sha256_hex_digest(1), status |-> "valid",
                   names |-> {"a.test"},
                   csr |-> [key |-> 2, names |-> {"a.test"}, signed |-> TRUE],
                   certificate |-> 1, proxied_url |-> 0]>>
    /\ authzs = (<<1, "a.test">> :> "valid")
    /\ challenges = (<<1, "a.test", "http-01">> :> "valid")
    /\ certs = <<[order_id |-> 1, status |-> "valid", key |-> 2,
                  names |-> {"a.test"}, reason |-> 0, full_chain |-> TRUE]>>

\* the remote CA after it issued the certificate of one order
IssuedUpstream ==
    [orders |-> 1,
     calls |-> {<<"order_create", 1>>, <<"authorizations_complete", 1>>,
                <<"order_finalize", 1>>, <<"certificate_get", 1>>},
     failed |-> {}, timeouts |-> 0, revoked |-> {}, refusals |-> 0]

InitRelayRevoke == Started(IssuedUpstream) /\ RelayedCertDB

NextRelayRevoke ==
    \/ new_nonce
    \/ relay_revoke_cert

SpecRelayRevoke == InitRelayRevoke /\ [][NextRelayRevoke]_vars

(***************************************************************************)
(* Request authentication and accounts                                     *)
(***************************************************************************)
Accepted == last.status \in {200, 201, 204}

\* C2: a nonce carried by a request that was answered with an ACME error is
\* no longer in the nonce store afterwards, whichever check rejected it
C2_ErrorConsumesNonce == (last.code # "") => last.gone

\* C4: a request authenticated in kid mode is resolved to the stored account
\* named by the last segment of the kid URL, its signature verifies under
\* that account's key, and the kid URL is the accounts route for that kid
\* or the new-account route with the kid appended
C4_KidResolvesAccount ==
    (Accepted /\ last.kid # NoURL) =>
        /\ last.acct = last.kid.name
        /\ \E a \in AccountRows : a.kid = last.acct /\ a.key = last.signer
        /\ \/ last.kid = url_for("accounts", last.acct)
           \/ last.kid = url_for("new-account", last.acct)

C4_Witness ==
    /\ Accepted
    /\ last.ep = "accounts"
    /\ last.kid = url_for("new-account", last.acct)
    /\ last.acct \in Kids

\* C6: while a VALID account is stored for key K, a new-account request
\* signed with K that passes authentication is answered 200 with the
\* Location of that account, and never starts the creation of an account
AuthFailures == {"malformed", "unauthorized", "badSignatureAlgorithm", "badNonce"}

NewAccountAnswered(k) ==
    /\ nextNonce' # nextNonce
    /\ inflight' = inflight
    /\ last'.ep = "new-account"
    /\ last'.signer = k

C6_Step ==
    \A k \in Keys :
        (\E a \in AccountRows : a.key = k /\ a.status = "valid") =>
            /\ inflight'[k] <= inflight[k]
            /\ NewAccountAnswered(k) =>
                 \/ last'.code \in AuthFailures
                 \/ /\ last'.status = 200
                    /\ last'.loc = sha256_hex_digest(k)
                    /\ last'.acct = last'.loc
                    /\ accounts' = accounts

C6_ExistingAccountReturned == [][C6_Step]_vars

C6_Witness ==
    /\ last.ep = "new-account"
    /\ last.status = 200
    /\ last.loc \in Kids
    /\ \E a \in AccountRows : a.kid = last.loc /\ a.key = last.signer

\* C7: no two accounts share a public key, and every account's kid is the
\* hash of its key, also when two new-account requests with the same key
\* looked the key up before either was committed
C7_KeyBijection ==
    /\ \A i, j \in DOMAIN accounts :
          accounts[i].key = accounts[j].key => i = j
    /\ \A a \in AccountRows : a.kid = sha256_hex_digest(a.key)

\* the second of two interleaved creations for one key was refused at flush
C7_Witness ==
    /\ last.ep = "new-account"
    /\ last.status = 500
    /\ \E a \in AccountRows : a.key = last.signer

(***************************************************************************)
(* Responses                                                               *)
(***************************************************************************)
\* C3: every response carries a Replay-Nonce newly added to the nonce
\* store, also the response to a missing resource
C3_EveryResponseFreshNonce == (last.ep # "none") => last.fresh

(***************************************************************************)
(* Challenges and authorizations                                           *)
(***************************************************************************)
\* C8: once a challenge is VALID or INVALID its status never changes: a
\* VALID challenge stays a VALID row, an INVALID one never takes another
\* status
C8_Step ==
    \A cid \in DOMAIN challenges :
       /\ challenges[cid] = "valid" =>
            cid \in DOMAIN challenges' /\ challenges'[cid] = "valid"
       /\ (challenges[cid] = "invalid" /\ cid \in DOMAIN challenges') =>
            challenges'[cid] = "invalid"

C8_ChallengeFinality == [][C8_Step]_vars

\* C9: a VALID authorization has no child challenge that is not VALID
C9_ValidAuthzOnlyValidChallenges ==
    \A aid \in DOMAIN authzs :
       authzs[aid] = "valid" =>
          \A cid \in ChallengesOf(aid) : challenges[cid] = "valid"

\* C10: an authorization becomes VALID only from PENDING
C10_Step ==
    \A aid \in DOMAIN authzs :
       (authzs'[aid] = "valid" /\ authzs[aid] # "valid") =>
          authzs[aid] = "pending"

C10_ValidOnlyFromPending == [][C10_Step]_vars

(***************************************************************************)
(* Nonces and inert accounts                                               *)
(***************************************************************************)
ProtectedEndpoints ==
    {"new-account", "accounts", "new-order", "order", "orders", "authz",
     "challenge", "finalize-order", "certificate", "revoke-cert"}

\* C1: a request to a nonce-protected endpoint is accepted only if the
\* nonce it carries was in the store on arrival, and the nonce is consumed,
\* so no nonce is accepted twice
C1_NonceAcceptedOnce ==
    (Accepted /\ last.ep \in ProtectedEndpoints) => (last.live /\ last.gone)

\* C5: a well-formed, correctly signed request of an account that is not
\* VALID (kid mode, or new-account with its key) is answered unauthorized and
\* changes no entity; a DEACTIVATED account stays DEACTIVATED
Answered == last' # last \/ nextNonce' # nextNonce

SignedBy(a) ==
    /\ last'.wellformed
    /\ last'.live
    /\ last'.signer = a.key
    /\ \/ last'.ep = "new-account"
       \/ last'.kid \in {url_for("accounts", a.kid), url_for("new-account", a.kid)}

C5_Step ==
    \A i \in DOMAIN accounts :
       accounts[i].status # "valid" =>
          /\ accounts'[i] = accounts[i]
          /\ (Answered /\ SignedBy(accounts[i])) =>
                (last'.code = "unauthorized" /\ db' = db)

C5_InertAccount == [][C5_Step]_vars

(***************************************************************************)
(* Orders and finalization                                                 *)
(***************************************************************************)
AllAuthzsValid(oid) == \A aid \in AuthzsOfOrder(oid) : authzs[aid] = "valid"
SomeAuthzFailed(oid) ==
    \E aid \in AuthzsOfOrder(oid) : authzs[aid] \in FailedAuthzStatuses

\* a finalize handler passed _validate_order in this step
FinalizeProceeds(oid) ==
    \E h \in finalizing' \ finalizing : h.id = 0 /\ h.oid = oid

\* C11: the order handler returns READY only if every authorization of the
\* order is VALID, returns a PENDING order whose authorizations are all
\* VALID as READY and one with a failed authorization as INVALID; the
\* finalize handler goes on only with an order that reconciles to READY
C11_Step ==
    /\ (Answered /\ last'.ep = "order" /\ last'.status = 200) =>
         LET oid == last'.order IN
         /\ last'.ostatus = "ready" => AllAuthzsValid(oid)
         /\ (orders[oid].status = "pending" /\ AllAuthzsValid(oid)) =>
               last'.ostatus = "ready"
         /\ (orders[oid].status = "pending" /\ SomeAuthzFailed(oid)) =>
               last'.ostatus = "invalid"
    /\ \A oid \in DOMAIN orders :
         FinalizeProceeds(oid) =>
            orders[oid].status = "pending" /\ AllAuthzsValid(oid)

C11_ReconciledStatus == [][C11_Step]_vars

C11_Witness ==
    /\ last.ep = "order"
    /\ last.status = 200
    /\ last.ostatus = "ready"
    /\ orders[last.order].status = "pending"

\* the status a read of the order returns
OrderView(oid) == Order_validate(orders[oid].status, oid)
OrderEdges ==
    {<<"pending", "ready">>, <<"pending", "invalid">>,
     <<"ready", "processing">>, <<"processing", "valid">>,
     <<"processing", "invalid">>}

\* C12: every change of the status a read of an order returns follows an
\* edge of the order state machine
C12_Step ==
    \A oid \in DOMAIN orders :
       LET before == OrderView(oid)
           after == OrderView(oid)'
       IN after # before => <<before, after>> \in OrderEdges

C12_MonotoneChain == [][C12_Step]_vars

\* C13: an order whose committed status is VALID or INVALID never takes a
\* non-terminal status again
C13_Step ==
    \A oid \in DOMAIN orders :
       orders[oid].status \in {"valid", "invalid"} =>
          orders'[oid].status \in {"valid", "invalid"}

C13_TerminalStays == [][C13_Step]_vars

\* C14: at most one certificate is created for an order, and the order's
\* certificate slot names that certificate
C14_CertificateOnce ==
    /\ \A i, j \in DOMAIN certs :
          certs[i].order_id = certs[j].order_id => i = j
    /\ \A i \in DOMAIN certs :
          /\ certs[i].order_id \in DOMAIN orders
          /\ orders[certs[i].order_id].certificate = i

\* the order has the CSR stored, or left READY, in this step
CsrTaken(oid) ==
    \/ orders'[oid].csr # orders[oid].csr
    \/ OrderView(oid) = "ready" /\ OrderView(oid)' # "ready"

\* a finalize request for the READY order oid was answered in this step,
\* and the identifiers of its CSR differ from the order's
MismatchAnswered(oid) ==
    /\ Answered
    /\ last'.ep = "finalize-order"
    /\ last'.order = oid
    /\ OrderView(oid) = "ready"
    /\ names_of(last'.csr) # orders[oid].names

OrderUntouched(oid) ==
    /\ orders'[oid] = orders[oid]
    /\ OrderView(oid)' = "ready"
    /\ finalizing' = finalizing

\* C16 as stated: a CSR is stored and the order leaves READY only if the
\* CSR names the order's identifiers, and a CSR with other identifiers is
\* rejected with badCSR, the order staying READY without a CSR
C16_Original_Step ==
    \A oid \in DOMAIN orders :
       /\ CsrTaken(oid) => names_of(orders'[oid].csr) = orders[oid].names
       /\ MismatchAnswered(oid) =>
             last'.code = "badCSR" /\ OrderUntouched(oid)

C16_MismatchIsBadCSR == [][C16_Original_Step]_vars

\* C16 amended: a CSR with other identifiers is rejected with badCSR, or
\* with badPublicKey when its key is below the minimum size, which
\* _validate_order checks first
C16_Step ==
    \A oid \in DOMAIN orders :
       /\ CsrTaken(oid) => names_of(orders'[oid].csr) = orders[oid].names
       /\ MismatchAnswered(oid) =>
             /\ last'.code = IF key_size(last'.csr.key) < rsa_min_keysize
                             THEN "badPublicKey" ELSE "badCSR"
             /\ OrderUntouched(oid)

C16_IdentifierClosure == [][C16_Step]_vars

C16_Witness ==
    /\ last.ep = "finalize-order"
    /\ last.code = "badCSR"
    /\ last.csr.signed
    /\ last.order \in DOMAIN orders
    /\ names_of(last.csr) # orders[last.order].names
    /\ OrderView(last.order) = "ready"

\* C17: in CA mode with fair scheduling an order that is PROCESSING, no
\* finalize handler being under way, eventually is VALID with a VALID
\* certificate stored, or INVALID
OrderSettled(oid) ==
    \/ /\ orders[oid].status = "valid"
       /\ orders[oid].certificate \in DOMAIN certs
       /\ certs[orders[oid].certificate].status = "valid"
    \/ orders[oid].status = "invalid"

C17_ProcessingEnds ==
    \A oid \in OrderIds :
       (/\ oid \in DOMAIN orders
        /\ orders[oid].status = "processing"
        /\ \A c \in finalizing : c.id # 0)
          ~> (oid \in DOMAIN orders /\ OrderSettled(oid))

(***************************************************************************)
(* Relays                                                                  *)
(***************************************************************************)
\* no coroutine is working on the order
Quiet(oid) == \A c \in finalizing : c.oid # oid

\* C18: in broker mode, once handle_order_finalize has ended for an order
\* for which an upstream step failed, the order is INVALID and has no
\* certificate
C18_UpstreamFailureInvalidates ==
    \A oid \in DOMAIN orders :
       (oid \in upstream.failed /\ Quiet(oid)) =>
          /\ orders[oid].status = "invalid"
          /\ orders[oid].certificate = NoCert
          /\ \A i \in DOMAIN certs : certs[i].order_id # oid

\* the endpoints that must not reach the remote CA in broker mode
LocalEndpoints == {"new-order", "order", "authz", "challenge"}

\* the upstream operations called for the order in this step
NewCalls(oid) == {c[1] : c \in {d \in upstream'.calls \ upstream.calls : d[2] = oid}}

\* C19: in broker mode a request to new-order, order, authz or challenge
\* calls no upstream operation; the first upstream call for an order is
\* order_create, made by a task when the order has been committed as
\* PROCESSING with its CSR, all its authorizations being VALID
C19_Step ==
    /\ (Answered /\ last'.ep \in LocalEndpoints) => upstream' = upstream
    /\ upstream' # upstream =>
          /\ last' = last
          /\ \E t \in finalizing : t.id # 0 /\ t.pc # "start"
    /\ \A oid \in OrderIds :
          /\ (NewCalls(oid) # {} /\ "order_create" \notin NewCalls(oid)) =>
                <<"order_create", oid>> \in upstream.calls
          /\ "order_create" \in NewCalls(oid) =>
                /\ oid \in DOMAIN orders
                /\ orders[oid].status \notin {"pending", "ready"}
                /\ orders[oid].csr # NoCsr
                /\ AllAuthzsValid(oid)

C19_UpstreamDeferred == [][C19_Step]_vars

C19_Witness ==
    /\ <<"order_create", 1>> \in upstream.calls
    /\ <<"certificate_get", 1>> \in upstream.calls
    /\ orders[1].status = "valid"

\* a suspended finalize handler went on in this step
HandlerResumed == \E h \in finalizing \ finalizing' : h.id = 0

\* a finalize request that named the stored order oid was answered by the
\* handler's first part, _validate_order
FinalizeAnswered(oid) ==
    /\ Answered
    /\ ~HandlerResumed
    /\ last'.ep = "finalize-order"
    /\ last'.order = oid

\* C15: a finalize request on an order that reconciles to INVALID is
\* rejected with orderInvalid, on one in another status than READY with
\* orderNotReady; the order and the certificates are unchanged, no task is
\* launched and no upstream call is made
C15_Step ==
    \A oid \in DOMAIN orders :
       /\ FinalizeProceeds(oid) => OrderView(oid) = "ready"
       /\ (FinalizeAnswered(oid) /\ OrderView(oid) # "ready") =>
             /\ last'.code = IF OrderView(oid) = "invalid"
                             THEN "orderInvalid" ELSE "orderNotReady"
             /\ orders' = orders
             /\ certs' = certs
             /\ finalizing' = finalizing
             /\ nextTask' = nextTask
             /\ upstream' = upstream

C15_NotReadyRejected == [][C15_Step]_vars

C15_Witness ==
    /\ last.ep = "finalize-order"
    /\ last.code = "orderNotReady"
    /\ last.order \in DOMAIN orders
    /\ orders[last.order].status \in {"processing", "valid"}
    /\ orders[last.order].proxied_url # 0

\* C20: in proxy mode every stored order names an upstream order that
\* order_create returned
C20_ProxiedUrl ==
    \A oid \in DOMAIN orders :
       /\ orders[oid].proxied_url \in 1..upstream.orders
       /\ <<"order_create", oid>> \in upstream.calls

\* the upstream order is created in the request that stores the local
\* order; when order_create fails no order is stored and no task launched
C20_Step ==
    /\ Len(orders') > Len(orders) =>
          /\ upstream'.orders = upstream.orders + 1
          /\ orders'[Len(orders')].proxied_url = upstream'.orders
          /\ Answered /\ last'.ep = "new-order" /\ last'.status = 201
    /\ (Answered /\ last'.ep = "new-order" /\ last'.status # 201) =>
          /\ db' = db
          /\ finalizing' = finalizing
          /\ nextTask' = nextTask
          /\ upstream'.orders = upstream.orders

C20_UpstreamOrderFirst == C20_ProxiedUrl /\ [][C20_Step]_vars

C20_Witness ==
    /\ Len(orders) = 1
    /\ last.ep = "new-order"
    /\ last.status = 201
    /\ orders[1].proxied_url = upstream.orders
    /\ \E t \in finalizing : t.kind = "complete_challenges" /\ t.oid = 1

(***************************************************************************)
(* The proxy's finalize: bounded wait, then the chain download             *)
(***************************************************************************)
\* the tasks a step schedules
Scheduled == {t \in finalizing' : t.pc = "start"} \ finalizing

\* the proxy's finalize handler h leaves at its commit or with an error
ProxyHandlerEnds(h) ==
    /\ h \in finalizing
    /\ h.kind = "proxy_finalize_order"
    /\ h \notin finalizing'

\* the order is VALID with a certificate of its own that has a full chain
ChainStored(oid) ==
    /\ orders[oid].certificate \in DOMAIN certs
    /\ certs[orders[oid].certificate].order_id = oid
    /\ certs[orders[oid].certificate].full_chain

C21_Step ==
    \A h \in finalizing :
       ProxyHandlerEnds(h) =>
          /\ upstream'.timeouts > upstream.timeouts =>
                /\ orders'[h.oid].status = "invalid"
                /\ last'.ostatus = "invalid"
                /\ Scheduled = {}
          /\ (upstream'.timeouts = upstream.timeouts /\ last'.code = "") =>
                /\ <<"order_finalize", h.oid>> \in upstream'.calls
                /\ orders'[h.oid].status = "processing"
                /\ last'.ostatus = "processing"
                /\ Cardinality(Scheduled) = 1
                /\ \A t \in Scheduled :
                      t.kind = "handle_order_finalize" /\ t.oid = h.oid

\* C21: in proxy mode a finalize whose upstream finalize times out commits
\* the order as INVALID and schedules no task; one that completes in time
\* commits PROCESSING and schedules exactly one handle_order_finalize task;
\* an order is VALID only together with a stored certificate and full chain
C21_BoundedWait ==
    /\ [](\A oid \in DOMAIN orders :
             orders[oid].status = "valid" => ChainStored(oid))
    /\ [][C21_Step]_vars

\* one finalize timed out, another completed and its task stored the chain
C21_Witness ==
    /\ upstream.timeouts > 0
    /\ last.ep = "finalize-order"
    /\ last.ostatus = "processing"
    /\ \E oid \in DOMAIN orders :
          orders[oid].status = "valid" /\ ChainStored(oid)

(***************************************************************************)
(* Revocation                                                              *)
(***************************************************************************)
\* the account holds a VALID authorization for every name of the certificate
HoldsAuthorizations(kid, cert) ==
    \A name \in cert.names :
       \E aid \in DOMAIN authzs :
          /\ aid[2] = name
          /\ authzs[aid] = "valid"
          /\ aid[1] \in DOMAIN orders
          /\ orders[aid[1]].account_kid = kid

\* the answered request is signed by a VALID account with the authorizations
RevokedByAccount(cert) ==
    /\ last'.kid # NoURL
    /\ \E a \in AccountRows :
          /\ a.kid = last'.kid.name
          /\ a.kid = last'.acct
          /\ a.status = "valid"
          /\ a.key = last'.signer
          /\ HoldsAuthorizations(a.kid, cert)

\* the answered request embeds the certificate's key and is signed with it
RevokedByCertificateKey(cert) ==
    /\ last'.jwk = cert.key
    /\ last'.signer = cert.key

C23_Step ==
    \A c \in DOMAIN certs :
       certs'[c] # certs[c] =>
          /\ last'.ep = "revoke-cert"
          /\ last'.status = 200
          /\ certs'[c].reason \in AllowedReasons
          /\ RevokedByAccount(certs[c]) \/ RevokedByCertificateKey(certs[c])

\* C23: a revoke-cert request changes a certificate only if it is signed by
\* a VALID account holding authorizations for all names of the certificate,
\* or embeds the certificate's public key and is signed with that key; any
\* other request leaves every certificate unchanged
C23_RevocationAuthorized == [][C23_Step]_vars

\* a certificate revoked by a request in either mode
C23_Witness ==
    /\ certs[1].status = "revoked"
    /\ last.ep = "revoke-cert"
    /\ last.status = 200
    /\ last.kid # NoURL
    /\ last.acct = sha256_hex_digest(1)

(***************************************************************************)
(* The end of a validation task                                            *)
(***************************************************************************)
\* the validation task t, having awaited the validator, ends in this step
ValidationEnds(t) ==
    /\ t \in tasks
    /\ t.pc = "validating"
    /\ t \notin tasks'

\* C24: when the validation task of a PROCESSING challenge ends, whether
\* the validator raised CouldNotValidateChallenge or any other exception,
\* the challenge is no longer PROCESSING
C24_Step ==
    \A t \in tasks :
       (/\ ValidationEnds(t)
        /\ t.cid \in DOMAIN challenges
        /\ challenges[t.cid] = "processing") =>
          \/ t.cid \notin DOMAIN challenges'
          \/ challenges'[t.cid] # "processing"

C24_ValidationSettles == [][C24_Step]_vars

(***************************************************************************)
(* The size of the nonce store                                             *)
(***************************************************************************)
\* a capacity that the nonces issued in a run can reach
NonceCapacity == MaxNonce

\* C28: the number of outstanding nonces stays below a fixed capacity:
\* issuing a nonce into a full store evicts an outstanding one
C28_NonceStoreBounded == Cardinality(nonces) < NonceCapacity

(***************************************************************************)
(* Revocation through a relay                                              *)
(***************************************************************************)
\* the remote CA was asked to revoke c in this step and returned success
UpstreamSucceeds(c) ==
    /\ <<"certificate_revoke", c>> \in upstream'.calls
    /\ c \in upstream'.revoked
    /\ upstream'.refusals = upstream.refusals

C22_Step ==
    /\ \A c \in DOMAIN certs :
          certs'[c] # certs[c] =>
             /\ last'.ep = "revoke-cert"
             /\ last'.status = 200
             /\ UpstreamSucceeds(c)
    /\ upstream'.refusals > upstream.refusals =>
          /\ last'.ep = "revoke-cert"
          /\ last'.code = "unauthorized"
          /\ certs' = certs

\* C22: in a relay a certificate is REVOKED only if the remote CA returned
\* success for its revocation in the same revoke-cert request; when the
\* remote CA reports failure the request is answered unauthorized and the
\* certificate keeps its status and reason
C22_UpstreamRevokesFirst ==
    /\ [](\A c \in DOMAIN certs :
             certs[c].status = "revoked" => c \in upstream.revoked)
    /\ [][C22_Step]_vars

\* a revocation that the remote CA refused, then one that it accepted
C22_Witness ==
    /\ upstream.refusals > 0
    /\ certs[1].status = "revoked"
    /\ 1 \in upstream.revoked
    /\ last.ep = "revoke-cert"
    /\ last.status = 200

(***************************************************************************)
(* The validator registry                                                  *)
(***************************************************************************)
\* register_challenge_validator was called in this step
Registering ==
    /\ call'.fn = "register_challenge_validator"
    /\ <<call', challenge_validators'>> # <<call, challenge_validators>>

C25_Step ==
    /\ Registering =>
          (call'.result = "ValueError"
              <=> \E t \in call'.arg.SUPPORTED_CHALLENGES :
                     challenge_validators[t] # NoValidator)
    /\ \A t \in ChallengeTypes :
          challenge_validators[t] # NoValidator =>
             challenge_validators'[t] = challenge_validators[t]

\* C25: register_challenge_validator raises ValueError if and only if one of
\* the validator's SUPPORTED_CHALLENGES is already bound, and the validator
\* bound to a challenge type is never replaced
C25_RegistryKeepsBindings == [][C25_Step]_vars

\* a registration that bound one type and then failed on a bound one
C25_Witness ==
    /\ call.fn = "register_challenge_validator"
    /\ call.result = "ValueError"
    /\ \E t \in call.arg.SUPPORTED_CHALLENGES : challenge_validators[t] = call.arg
    /\ \E t \in call.arg.SUPPORTED_CHALLENGES :
          challenge_validators[t] \notin {call.arg, NoValidator}

(***************************************************************************)
(* The wildcard flag                                                       *)
(***************************************************************************)
\* C27: Authorization.create_all creates exactly one authorization for an
\* identifier, in PENDING, whose wildcard flag is true if and only if the
\* identifier's value starts with the two characters "*."
C27_WildcardFlag ==
    call.fn = "Authorization.create_all" =>
        /\ Len(call.result) = 1
        /\ call.result[1].status = "pending"
        /\ call.result[1].wildcard <=> startswith(call.arg, <<"*", ".">>)

(***************************************************************************)
(* The request-IP DNS validator                                            *)
(***************************************************************************)
\* the addresses that the two resolutions answered with
AnsweredIPs(dns) == dns.A.ips \cup dns.AAAA.ips

\* C30: RequestIPDNSChallengeValidator.validate_challenge returns if and
\* only if the requester's IP is among the A and AAAA records resolved for
\* the identifier, a failed resolution counting as no address, and raises
\* CouldNotValidateChallenge otherwise
C30_RequestIPValidator ==
    call.fn = "validate_challenge" =>
        /\ call.result = "None" <=> call.arg.actual_ip \in AnsweredIPs(call.arg.dns)
        /\ call.result \in {"None", "CouldNotValidateChallenge"}

(***************************************************************************)
(* The IP middleware                                                       *)
(***************************************************************************)
\* the client IP of a request as the claim has it: the first address of
\* X-Forwarded-For when the server uses the header, else the remote address
ClientIP(cfg, conn) ==
    IF cfg.use_forwarded_header /\ conn.forwarded_for.present
    THEN conn.forwarded_for.addresses[1]
    ELSE conn.remote

\* the status the middleware answers with, 0 when the handler is to run
MiddlewareStatus(cfg, conn) ==
    IF ~cfg.use_forwarded_header /\ conn.forwarded_for.present THEN 400
    ELSE IF cfg.subnets # {}
            /\ ~\E subnet \in cfg.subnets : InSubnet(ClientIP(cfg, conn), subnet)
    THEN 403
    ELSE 0

\* a request was answered by the middleware, or handed to a validation task
MiddlewareAnswers == last' # last /\ last'.ep = "any"
HandedOver == tasks' # tasks

C29_Step ==
    /\ MiddlewareAnswers =>
          /\ last'.status = MiddlewareStatus(config, last'.conn)
          /\ last'.status \in {400, 403}
          /\ UNCHANGED <<nonces, nextNonce, db, tasks>>
    /\ HandedOver =>
          /\ MiddlewareStatus(config, last'.conn) = 0
          /\ \A t \in tasks' \ tasks :
                t.request.actual_ip = ClientIP(config, last'.conn)

\* C29: the IP middleware decides before the handler runs: 400 for an
\* X-Forwarded-For header when use_forwarded_header is false; the client IP
\* is the first address of the header when it is true, else the remote
\* address; 403 for a client IP outside every configured subnet; a rejected
\* request consumes no nonce and changes no stored entity, and the client IP
\* is the one handed to the challenge validators
C29_MiddlewareDecides == [][C29_Step]_vars

(***************************************************************************)
(* The issuance scenario                                                   *)
(***************************************************************************)
\* every authorization with an answered challenge is VALID and so are the
\* challenges it has, none of which is PROCESSING any more
AnsweredValid ==
    \A aid \in DOMAIN authzs :
       (\E c \in ChallengesOf(aid) : challenges[c] # "pending") =>
          /\ authzs[aid] = "valid"
          /\ \A c \in ChallengesOf(aid) : challenges[c] = "valid"
ChallengeProcessing == \E cid \in DOMAIN challenges : challenges[cid] = "processing"
AuthzsValid == authzs # <<>> /\ \A aid \in DOMAIN authzs : authzs[aid] = "valid"
OrderIs(status) == orders # <<>> /\ orders[1].status = status
OrderSeen(status) == last.ep = "order" /\ last.status = 200 /\ last.ostatus = status
\* the order is VALID and its certificate is stored and VALID
OrderValidWithCertificate ==
    /\ OrderIs("valid")
    /\ orders[1].certificate \in DOMAIN certs
    /\ certs[orders[1].certificate].status = "valid"
CertificateDownloaded ==
    /\ last.ep = "certificate"
    /\ last.status = 200
    /\ last.order = 1
    /\ OrderValidWithCertificate
\* the model's bounds leave room for k more responses and for a task
Room(k) == nextNonce + k <= MaxNonce + 1 /\ nextTask <= MaxTasks

C37_Step ==
    (Registering /\ call'.result = "ValueError") =>
        challenge_validators' = challenge_validators

\* C37: a register_challenge_validator call that raises ValueError leaves
\* the registry as it was before the call: no challenge type is bound to
\* the validator that was refused
C37_FailedRegistrationKeepsRegistry == [][C37_Step]_vars

(***************************************************************************)
(* Revocation is final                                                     *)
(***************************************************************************)
Revoked(c) == c \in DOMAIN certs /\ certs[c].status = "revoked"

C31_Step ==
    \A c \in DOMAIN certs :
       Revoked(c) => (c \in DOMAIN certs' /\ certs'[c].status = "revoked")

\* C31: a certificate whose status is REVOKED stays REVOKED: a repeated
\* revoke-cert leaves it so, and no handler or task sets it VALID again
C31_RevokedIsFinal == [][C31_Step]_vars

\* the certificate that the finalize request issued is REVOKED, and the
\* last of the four responses is the 200 of a revoke-cert for it
C31_Witness ==
    /\ Revoked(1)
    /\ last.ep = "revoke-cert"
    /\ last.status = 200
    /\ nextNonce > 4

(***************************************************************************)
(* Challenge validation: who moves a challenge, and how many tasks         *)
(***************************************************************************)
\* the step is a challenge request that launched a validation task
TaskLaunched(cid) ==
    \E t \in tasks' \ tasks : t.cid = cid /\ t.pc = "start"

\* the step is the end of a validation task of the challenge
TaskEnded(cid) ==
    \E t \in tasks \ tasks' : t.cid = cid /\ t.pc = "validating"

TasksOf(cid) == {t \in tasks : t.cid = cid}

\* C36: at most one validation task is in flight for a challenge: the
\* handler launches a task only for a challenge it has just moved from
\* PENDING to PROCESSING
C36_OneTaskPerChallenge ==
    \A cid \in DOMAIN challenges : Cardinality(TasksOf(cid)) <= 1

C32_Step ==
    \A cid \in DOMAIN challenges \cap DOMAIN challenges' :
       /\ (challenges[cid] = "pending" /\ challenges'[cid] # "pending") =>
             /\ challenges'[cid] = "processing"
             /\ TaskLaunched(cid)
             /\ last'.ep = "challenge" /\ last'.status = 200
       /\ (challenges'[cid] \in {"valid", "invalid"}
             /\ challenges'[cid] # challenges[cid]) =>
             /\ challenges[cid] # "pending"
             /\ TaskEnded(cid)

\* C32: a stored challenge leaves PENDING only in the challenge handler,
\* which commits it as PROCESSING together with its 200 response and
\* before the validation task takes its first step; a challenge becomes
\* VALID or INVALID only in the step that ends a validation task, and
\* never directly from PENDING
C32_ChallengeTransitions == [][C32_Step]_vars

\* a validation task has ended and left the challenge it was launched for
\* VALID, after the handler had moved it from PENDING to PROCESSING
C32_Witness ==
    /\ \E cid \in DOMAIN challenges :
          challenges[cid] = "valid" /\ TasksOf(cid) = {}
    /\ last.ep = "challenge"
    /\ last.status = 200

(***************************************************************************)
(* AcmeProxy._complete_challenges and the local order                      *)
(***************************************************************************)
\* the step ends the _complete_challenges task of the order, the task got
\* as far as awaiting authorizations_complete, and no earlier client call
\* for the order had failed (so the step shows whether this one did)
CompleteChallengesEnds(oid) ==
    /\ oid \notin upstream.failed
    /\ \E t \in finalizing \ finalizing' :
          t.kind = "complete_challenges" /\ t.oid = oid
    /\ <<"authorizations_complete", oid>> \in upstream'.calls \ upstream.calls

C35_Step ==
    \A oid \in DOMAIN orders :
       CompleteChallengesEnds(oid) =>
          IF oid \in upstream'.failed
          THEN orders'[oid].status = "invalid"
          ELSE orders'[oid] = orders[oid]

\* C35: in proxy mode, when authorizations_complete raises in the
\* _complete_challenges task, the task commits the local order as INVALID;
\* when it returns, the task leaves the local order as it is
C35_CompleteChallengesOutcome == [][C35_Step]_vars

\* the order that the last new-order request created is INVALID because
\* its _complete_challenges task failed upstream
C35_Witness ==
    /\ last.ep = "new-order"
    /\ last.status = 201
    /\ finalizing = {}
    /\ upstream.failed = {Len(orders)}
    /\ upstream.calls = {<<op, Len(orders)>> :
                            op \in {"order_create", "order_get",
                                    "authorizations_complete"}}
    /\ orders[Len(orders)].status = "invalid"

(***************************************************************************)
(* The finalize handler and its task                                       *)
(***************************************************************************)
FinalizeTasks == {t \in finalizing : t.kind = "handle_order_finalize"}

C33_Step ==
    \* ensure_future: the step is the handler's commit and response
    /\ \A t \in FinalizeTasks' \ FinalizeTasks :
          t.pc = "start" =>
             /\ orders'[t.oid].csr # NoCsr
             /\ orders'[t.oid].status = "processing"
             /\ orders'[t.oid].account_kid = t.kid
             /\ last'.ep = "finalize-order" /\ last'.status = 200
             /\ last'.order = t.oid
    \* get_order(session, kid, order_id) in the task's own session
    /\ \A t \in FinalizeTasks' \ FinalizeTasks :
          t.pc = "loaded" =>
             /\ Database_get_order(t.kid, t.oid)
             /\ orders[t.oid].csr # NoCsr
             /\ t.snap.status = orders[t.oid].status

\* C33: a handle_order_finalize task is launched only in the step in which
\* the finalize handler commits the order with its CSR and status
\* PROCESSING; the task reads the order again by (kid, order_id), and the
\* order it reads has its CSR set
C33_TaskReadsCommittedCsr == [][C33_Step]_vars

\* a task has read the order that the 200 finalize response was for
C33_Witness ==
    /\ \E t \in FinalizeTasks :
          /\ t.pc = "loaded"
          /\ t.snap.status = "processing"
          /\ orders[t.oid].csr # NoCsr
          /\ last.order = t.oid
    /\ last.ep = "finalize-order"
    /\ last.status = 200

(***************************************************************************)
(* Orders and their certificates                                           *)
(***************************************************************************)
\* a VALID order has a stored certificate, and every stored certificate
\* belongs to an order with a stored CSR
CertificateBacked ==
    /\ \A oid \in DOMAIN orders :
          orders[oid].status = "valid" =>
             /\ orders[oid].certificate \in DOMAIN certs
             /\ certs[orders[oid].certificate].order_id = oid
    /\ \A c \in DOMAIN certs :
          /\ certs[c].order_id \in DOMAIN orders
          /\ orders[certs[c].order_id].csr # NoCsr

\* a certificate is created by a task that loaded the order after the
\* finalize handler had committed its CSR and PROCESSING
C34_Step ==
    \A c \in DOMAIN certs' \ DOMAIN certs :
       \E t \in FinalizeTasks \ FinalizeTasks' :
          /\ t.oid = certs'[c].order_id
          /\ t.snap.status # "pending"
          /\ orders[t.oid].csr # NoCsr
          /\ orders'[t.oid].certificate = c

AcmeErrorAnswered ==
    /\ nextNonce' # nextNonce
    /\ last'.code # ""

C38_Step == AcmeErrorAnswered => db' = db

OrderReadAnswered ==
    /\ last'.ep \in {"order", "orders"}
    /\ \/ nextNonce' # nextNonce
       \/ nonces' # nonces
       \/ last' # last

C39_Step == OrderReadAnswered => db' = db

\* C39: the order and orders handlers change no account, order,
\* authorization, challenge or certificate: the status that the order
\* handler reconciles for its response is not committed
C39_OrderReadsChangeNothing == [][C39_Step]_vars

\* an order was read as READY while its stored status is still PENDING
C39_Witness ==
    /\ last.ep = "order"
    /\ last.status = 200
    /\ last.ostatus = "ready"
    /\ orders[last.order].status = "pending"

(***************************************************************************)
(* Ownership of orders, authorizations, challenges and certificates        *)
(***************************************************************************)
OwnedEndpoints ==
    {"order", "finalize-order", "authz", "challenge", "certificate"}

\* the step answers a request to a handler of an owned resource
OwnedResourceAnswered ==
    /\ last'.ep \in OwnedEndpoints
    /\ last' # last \/ nextNonce' # nextNonce

\* the order row names the account
OrderOf(kid, oid) ==
    oid \in DOMAIN orders /\ orders[oid].account_kid = kid

\* the account of the key that signed the request
Signer == get_account_by_key(last'.signer)

C40_Step ==
    OwnedResourceAnswered =>
       \* the rows that differ belong to orders of the signing account
       /\ accounts' = accounts
       /\ certs' = certs
       /\ DOMAIN orders' = DOMAIN orders
       /\ \A oid \in DOMAIN orders :
             orders'[oid] # orders[oid] => OrderOf(Signer, oid)
       /\ \A aid \in DOMAIN authzs :
             (aid \notin DOMAIN authzs' \/ authzs'[aid] # authzs[aid]) =>
                OrderOf(Signer, aid[1])
       /\ \A cid \in DOMAIN challenges :
             (cid \notin DOMAIN challenges' \/ challenges'[cid] # challenges[cid])
                => OrderOf(Signer, cid[1])
       \* the coroutines launched work on resources of the signing account
       /\ \A t \in tasks' \ tasks : t.kid = Signer /\ OrderOf(Signer, t.cid[1])
       /\ \A t \in finalizing' \ finalizing :
             t.kid = Signer /\ OrderOf(Signer, t.oid)
       \* a resource is returned only to the account that owns it
       /\ (last'.status = 200 /\ last'.order # NoOrder) =>
             OrderOf(Signer, last'.order)
       \* anything else is answered 404 or with an error
       /\ (\A oid \in DOMAIN orders : ~OrderOf(Signer, oid)) =>
             last'.status # 200

\* C40: the order, finalize, authz, challenge and certificate handlers
\* return and change only resources of orders of the account that signed
\* the request; a request for a resource of another account is answered
\* 404 and leaves the rows of that account as they were, so what the other
\* account reads does not depend on it
C40_OwnResourcesOnly == [][C40_Step]_vars

\* the account of key 2 asked for the order of the account of key 1 and
\* was answered 404
C40_Witness ==
    /\ last.ep = "order"
    /\ last.status = 404
    /\ last.signer = 2
    /\ last.wellformed
    /\ OrderOf(sha256_hex_digest(1), 1)
    /\ ~OrderOf(sha256_hex_digest(2), 1)
    /\ get_account_by_key(2) = sha256_hex_digest(2)

====
